---- MODULE Spec2Model ----
(***************************************************************************)
(* QoraNet: the QRC-20 token engine (src/src/qrc20/token.rs), the token    *)
(* registry (src/src/qrc20/registry.rs), the ERC-20 bridge                 *)
(* (src/src/qrc20/bridge.rs), the transaction pool                         *)
(* (src/QoraNet - src/transaction.rs) and the block production cycle of    *)
(* the validator node (src/src/bin/validator.rs).                          *)
(*                                                                         *)
(* H160 user addresses are the integers 1..NumAddr, H160::zero() is 0 and  *)
(* the contract address H160::from_low_u64_be(id) is the integer id.       *)
(* U256 is the range 0..U256Max; the U256 operators +, += panic on         *)
(* overflow (primitive_types), which the operators below reproduce as the  *)
(* result "panic" with the state as it is at the panicking statement.      *)
(* A HashMap is a function whose DOMAIN is the set of keys present.        *)
(***************************************************************************)
EXTENDS Integers, FiniteSets, Sequences, TLC

\* ------------------------------------------------------------------ bounds
NumAddr == 2
U256Max == 2
MaxDeploys == 2
MaxSteps == 3
MaxRegistrySteps == 4
MaxBridgeSteps == 3
MaxOperatorsSteps == 4
MaxPoolSteps == 4
MaxNodeSteps == 7
MaxTransactionsPerBlock == 2
MaxBlockSteps == 3
MaxBlockTxs == 3
U64Max == 30000000
MaxChainSteps == 7
MaxBalanceSteps == 3
MaxOracleSteps == 3

FirstContractId == 1000

Addr == 1..NumAddr
ZeroAddress == 0
U256 == 0..U256Max
Names == {"Token A", "Token B"}
Symbols == {"TKA", "TKB"}
DecimalsSet == {18}
ContractIds == FirstContractId..(FirstContractId + MaxDeploys - 1)

\* tokens .. registry_owner are the fields of QRC20Registry.  The others record
\* the history the properties speak about: last is the call just made and its
\* result, ever_deployed the addresses deploy has returned, requested the
\* options each live token was deployed with, approvals the amount last
\* approved per (token, owner, spender) and what was moved on it since.
\* eth_to_qora_mapping .. bridge_treasury are the fields of ERC20Bridge, pending
\* and by_signer those of TransactionPool.  blocks is what BlockchainStorage
\* holds, in the order stored; pc is where the block production task stands in
\* try_produce_block and transactions the list it has read from the pool.
\* block is the Block at hand (built here or received from a peer), now the
\* wall clock in seconds, validated the last Block::validate call on the block
\* at hand with its outcome, overflow_checks whether the build panics on
\* integer overflow.  db is the database of BlockchainStorage (its column
\* families blocks, split into the entries keyed by hash and the "height:"
\* entries, transactions and metadata), cache its StorageCache; write_failed
\* records that some store_block call did not complete all its writes.
\* balance is a Balance and token_balance a TokenBalance.
VARIABLES tokens, symbol_to_address, name_to_address, next_contract_id,
          registry_owner, last, ever_deployed, requested, approvals, steps,
          eth_to_qora_mapping, qora_to_eth_mapping, locked_eth_tokens,
          minted_qora_tokens, bridge_transactions, bridge_operators,
          min_confirmations, bridge_fee_bp, bridge_treasury,
          pending, by_signer, blocks, pc, transactions,
          block, now, validated, overflow_checks,
          db, cache, write_failed,
          balance, token_balance,
          qor_price_usd, last_update,
          accounts, account_cache,
          current_height, cycle, admitted,
          locks, task_pc

registry_vars == <<tokens, symbol_to_address, name_to_address, next_contract_id,
                   registry_owner>>

history_vars == <<ever_deployed, requested, approvals>>

bridge_vars == <<eth_to_qora_mapping, qora_to_eth_mapping, locked_eth_tokens,
                 minted_qora_tokens, bridge_transactions, bridge_operators,
                 min_confirmations, bridge_fee_bp, bridge_treasury>>

node_vars == <<pending, by_signer, blocks, pc, transactions>>

block_vars == <<block, now, validated, overflow_checks>>

chain_vars == <<db, cache, write_failed>>

balance_vars == <<balance, token_balance>>

oracle_vars == <<qor_price_usd, last_update>>

account_vars == <<accounts, account_cache>>

cycle_vars == <<current_height, cycle, admitted>>

lock_vars == <<locks, task_pc>>

extra_vars == <<account_vars, cycle_vars, lock_vars>>

ledger_vars == <<block_vars, chain_vars, balance_vars, oracle_vars, extra_vars>>

vars == <<registry_vars, last, history_vars, steps, bridge_vars, node_vars, ledger_vars>>

\* ------------------------------------------------------------ HashMap, Option
EmptyMap == [k \in {} |-> 0]

Insert(m, k, v) == [x \in (DOMAIN m) \cup {k} |-> IF x = k THEN v ELSE m[x]]

Remove(m, k) == [x \in (DOMAIN m) \ {k} |-> m[x]]

None == [some |-> FALSE]

Some(v) == [some |-> TRUE, val |-> v]

unwrap_or(opt, d) == IF opt.some THEN opt.val ELSE d

RECURSIVE SumOver(_, _)
SumOver(m, keys) ==
    IF keys = {} THEN 0
    ELSE LET k == CHOOSE x \in keys : TRUE
         IN m[k] + SumOver(m, keys \ {k})

SumBalances(tok) == SumOver(tok.balances, DOMAIN tok.balances)

Events == {"Deploy", "Transfer", "Approval", "Mint", "Burn",
           "PauseStatusChanged", "OwnershipTransferred"}

Errors == {"TokenNotFound", "InsufficientBalance", "InsufficientAllowance",
           "TokenPaused", "OnlyOwner", "SymbolExists", "NameExists",
           "NotMintable", "NotBurnable", "WouldExceedMaxSupply",
           "EVMExecutionFailed"}

\* ------------------------------------------------------------------ QRC20Token
new(name, symbol, decimals, total_supply, owner) ==
    [name |-> name, symbol |-> symbol, decimals |-> decimals,
     total_supply |-> total_supply, contract_address |-> ZeroAddress,
     balances |-> Insert(EmptyMap, owner, total_supply),
     allowances |-> EmptyMap, owner |-> owner, paused |-> FALSE,
     max_supply |-> 0, mintable |-> TRUE, burnable |-> TRUE]

new_advanced(name, symbol, decimals, total_supply, owner, max_supply, mintable, burnable) ==
    [name |-> name, symbol |-> symbol, decimals |-> decimals,
     total_supply |-> total_supply, contract_address |-> ZeroAddress,
     balances |-> Insert(EmptyMap, owner, total_supply),
     allowances |-> EmptyMap, owner |-> owner, paused |-> FALSE,
     max_supply |-> max_supply, mintable |-> mintable, burnable |-> burnable]

balance_of(tok, account) ==
    IF account \in DOMAIN tok.balances THEN tok.balances[account] ELSE 0

allowance(tok, owner, spender) ==
    IF owner \in DOMAIN tok.allowances /\ spender \in DOMAIN tok.allowances[owner]
    THEN tok.allowances[owner][spender]
    ELSE 0

set_contract_address(tok, address) == [tok EXCEPT !.contract_address = address]

transfer(tok, from, to, amount) ==
    IF tok.paused THEN [tok |-> tok, res |-> "TokenPaused"]
    ELSE LET from_balance == balance_of(tok, from) IN
    IF from_balance < amount THEN [tok |-> tok, res |-> "InsufficientBalance"]
    ELSE LET t1 == [tok EXCEPT !.balances = Insert(@, from, from_balance - amount)]
             to_balance == balance_of(t1, to) IN
    IF to_balance + amount > U256Max THEN [tok |-> t1, res |-> "panic"]
    ELSE [tok |-> [t1 EXCEPT !.balances = Insert(@, to, to_balance + amount)],
          res |-> "Transfer"]

\* approve without the pause check
approve_ignoring_pause(tok, owner, spender, amount) ==
    LET inner == IF owner \in DOMAIN tok.allowances
                 THEN tok.allowances[owner] ELSE EmptyMap IN
    [tok |-> [tok EXCEPT !.allowances = Insert(@, owner, Insert(inner, spender, amount))],
     res |-> "Approval"]

approve(tok, owner, spender, amount) ==
    IF tok.paused THEN [tok |-> tok, res |-> "TokenPaused"]
    ELSE LET inner == IF owner \in DOMAIN tok.allowances
                      THEN tok.allowances[owner] ELSE EmptyMap IN
         [tok |-> [tok EXCEPT !.allowances = Insert(@, owner, Insert(inner, spender, amount))],
          res |-> "Approval"]

\* transfer_from that forgets to lower the allowance
transfer_from_keeping_allowance(tok, spender, from, to, amount) ==
    IF tok.paused THEN [tok |-> tok, res |-> "TokenPaused"]
    ELSE LET allow == allowance(tok, from, spender) IN
    IF allow < amount THEN [tok |-> tok, res |-> "InsufficientAllowance"]
    ELSE LET from_balance == balance_of(tok, from) IN
    IF from_balance < amount THEN [tok |-> tok, res |-> "InsufficientBalance"]
    ELSE IF from \notin DOMAIN tok.allowances THEN [tok |-> tok, res |-> "panic"]
    ELSE LET t2 == [tok EXCEPT !.balances = Insert(@, from, from_balance - amount)]
             to_balance == balance_of(t2, to) IN
    IF to_balance + amount > U256Max THEN [tok |-> t2, res |-> "panic"]
    ELSE [tok |-> [t2 EXCEPT !.balances = Insert(@, to, to_balance + amount)],
          res |-> "Transfer"]

transfer_from(tok, spender, from, to, amount) ==
    IF tok.paused THEN [tok |-> tok, res |-> "TokenPaused"]
    ELSE LET allow == allowance(tok, from, spender) IN
    IF allow < amount THEN [tok |-> tok, res |-> "InsufficientAllowance"]
    ELSE LET from_balance == balance_of(tok, from) IN
    IF from_balance < amount THEN [tok |-> tok, res |-> "InsufficientBalance"]
    \* self.allowances.get_mut(&from).unwrap()
    ELSE IF from \notin DOMAIN tok.allowances THEN [tok |-> tok, res |-> "panic"]
    ELSE LET t1 == [tok EXCEPT !.allowances =
                        Insert(@, from, Insert(tok.allowances[from], spender, allow - amount))]
             t2 == [t1 EXCEPT !.balances = Insert(@, from, from_balance - amount)]
             to_balance == balance_of(t2, to) IN
    IF to_balance + amount > U256Max THEN [tok |-> t2, res |-> "panic"]
    ELSE [tok |-> [t2 EXCEPT !.balances = Insert(@, to, to_balance + amount)],
          res |-> "Transfer"]

\* mint that credits the recipient before it checks the supply cap
mint_crediting_before_cap(tok, caller, to, amount) ==
    IF caller # tok.owner THEN [tok |-> tok, res |-> "OnlyOwner"]
    ELSE IF ~tok.mintable THEN [tok |-> tok, res |-> "NotMintable"]
    ELSE IF tok.paused THEN [tok |-> tok, res |-> "TokenPaused"]
    ELSE LET to_balance == balance_of(tok, to) IN
    IF to_balance + amount > U256Max THEN [tok |-> tok, res |-> "panic"]
    ELSE LET t1 == [tok EXCEPT !.balances = Insert(@, to, to_balance + amount)] IN
    IF tok.max_supply # 0 /\ tok.total_supply + amount > U256Max
         THEN [tok |-> t1, res |-> "panic"]
    ELSE IF tok.max_supply # 0 /\ tok.total_supply + amount > tok.max_supply
         THEN [tok |-> t1, res |-> "WouldExceedMaxSupply"]
    ELSE IF t1.total_supply + amount > U256Max THEN [tok |-> t1, res |-> "panic"]
    ELSE [tok |-> [t1 EXCEPT !.total_supply = @ + amount], res |-> "Mint"]

mint(tok, caller, to, amount) ==
    IF caller # tok.owner THEN [tok |-> tok, res |-> "OnlyOwner"]
    ELSE IF ~tok.mintable THEN [tok |-> tok, res |-> "NotMintable"]
    ELSE IF tok.paused THEN [tok |-> tok, res |-> "TokenPaused"]
    \* !max_supply.is_zero() && total_supply + amount > max_supply
    ELSE IF tok.max_supply # 0 /\ tok.total_supply + amount > U256Max
         THEN [tok |-> tok, res |-> "panic"]
    ELSE IF tok.max_supply # 0 /\ tok.total_supply + amount > tok.max_supply
         THEN [tok |-> tok, res |-> "WouldExceedMaxSupply"]
    ELSE LET to_balance == balance_of(tok, to) IN
    IF to_balance + amount > U256Max THEN [tok |-> tok, res |-> "panic"]
    ELSE LET t1 == [tok EXCEPT !.balances = Insert(@, to, to_balance + amount)] IN
    \* self.total_supply += amount
    IF t1.total_supply + amount > U256Max THEN [tok |-> t1, res |-> "panic"]
    ELSE [tok |-> [t1 EXCEPT !.total_supply = @ + amount], res |-> "Mint"]

burn(tok, from, amount) ==
    IF ~tok.burnable THEN [tok |-> tok, res |-> "NotBurnable"]
    ELSE IF tok.paused THEN [tok |-> tok, res |-> "TokenPaused"]
    ELSE LET from_balance == balance_of(tok, from) IN
    IF from_balance < amount THEN [tok |-> tok, res |-> "InsufficientBalance"]
    ELSE LET t1 == [tok EXCEPT !.balances = Insert(@, from, from_balance - amount)] IN
    \* self.total_supply -= amount
    IF t1.total_supply < amount THEN [tok |-> t1, res |-> "panic"]
    ELSE [tok |-> [t1 EXCEPT !.total_supply = @ - amount], res |-> "Burn"]

pause(tok, caller) ==
    IF caller # tok.owner THEN [tok |-> tok, res |-> "OnlyOwner"]
    ELSE [tok |-> [tok EXCEPT !.paused = TRUE], res |-> "PauseStatusChanged"]

\* unpause without the owner check
unpause_by_anyone(tok, caller) ==
    [tok |-> [tok EXCEPT !.paused = FALSE], res |-> "PauseStatusChanged"]

unpause(tok, caller) ==
    IF caller # tok.owner THEN [tok |-> tok, res |-> "OnlyOwner"]
    ELSE [tok |-> [tok EXCEPT !.paused = FALSE], res |-> "PauseStatusChanged"]

transfer_ownership(tok, caller, new_owner) ==
    IF caller # tok.owner THEN [tok |-> tok, res |-> "OnlyOwner"]
    ELSE [tok |-> [tok EXCEPT !.owner = new_owner], res |-> "OwnershipTransferred"]

\* --------------------------------------------------------------- QRC20Registry
Reg == [tokens |-> tokens, symbol_to_address |-> symbol_to_address,
        name_to_address |-> name_to_address,
        next_contract_id |-> next_contract_id, registry_owner |-> registry_owner]

registry_new == [tokens |-> EmptyMap, symbol_to_address |-> EmptyMap,
                 name_to_address |-> EmptyMap,
                 next_contract_id |-> FirstContractId, registry_owner |-> ZeroAddress]

with_owner(owner) == [registry_new EXCEPT !.registry_owner = owner]

\* deploy_token_advanced that does not advance next_contract_id
deploy_token_advanced_reusing_id(reg, deployer, name, symbol, decimals, total_supply, max_supply, mintable, burnable) ==
    IF symbol \in DOMAIN reg.symbol_to_address
    THEN [reg |-> reg, res |-> "SymbolExists", addr |-> ZeroAddress]
    ELSE IF name \in DOMAIN reg.name_to_address
    THEN [reg |-> reg, res |-> "NameExists", addr |-> ZeroAddress]
    ELSE LET contract_address == reg.next_contract_id
             created == IF max_supply.some
                        THEN new_advanced(name, symbol, decimals, total_supply, deployer,
                                          max_supply.val, unwrap_or(mintable, TRUE),
                                          unwrap_or(burnable, TRUE))
                        ELSE new(name, symbol, decimals, total_supply, deployer)
             token == set_contract_address(created, contract_address)
         IN [reg |-> [reg EXCEPT !.tokens = Insert(@, contract_address, token),
                                 !.symbol_to_address = Insert(@, symbol, contract_address),
                                 !.name_to_address = Insert(@, name, contract_address)],
             res |-> "Ok", addr |-> contract_address]

deploy_token_advanced(reg, deployer, name, symbol, decimals, total_supply, max_supply, mintable, burnable) ==
    IF symbol \in DOMAIN reg.symbol_to_address
    THEN [reg |-> reg, res |-> "SymbolExists", addr |-> ZeroAddress]
    ELSE IF name \in DOMAIN reg.name_to_address
    THEN [reg |-> reg, res |-> "NameExists", addr |-> ZeroAddress]
    ELSE LET contract_address == reg.next_contract_id
             created == IF max_supply.some
                        THEN new_advanced(name, symbol, decimals, total_supply, deployer,
                                          max_supply.val, unwrap_or(mintable, TRUE),
                                          unwrap_or(burnable, TRUE))
                        ELSE new(name, symbol, decimals, total_supply, deployer)
             token == set_contract_address(created, contract_address)
         IN [reg |-> [reg EXCEPT !.next_contract_id = @ + 1,
                                 !.tokens = Insert(@, contract_address, token),
                                 !.symbol_to_address = Insert(@, symbol, contract_address),
                                 !.name_to_address = Insert(@, name, contract_address)],
             res |-> "Ok", addr |-> contract_address]

deploy_token(reg, deployer, name, symbol, decimals, total_supply) ==
    deploy_token_advanced(reg, deployer, name, symbol, decimals, total_supply,
                          None, Some(TRUE), Some(TRUE))

\* the token-operation arms of execute_transaction: look the token up, call it
on_token(reg, contract, r) ==
    [reg |-> [reg EXCEPT !.tokens = Insert(@, contract, r.tok)], res |-> r.res]

execute_transaction(reg, caller, tx) ==
    IF tx.type = "Deploy"
    THEN LET d == deploy_token_advanced(reg, caller, tx.name, tx.symbol, tx.decimals,
                                        tx.total_supply, tx.max_supply, tx.mintable,
                                        tx.burnable)
         IN [reg |-> d.reg, res |-> IF d.res = "Ok" THEN "Deploy" ELSE d.res,
             addr |-> d.addr]
    ELSE IF tx.contract \notin DOMAIN reg.tokens
    THEN [reg |-> reg, res |-> "TokenNotFound", addr |-> tx.contract]
    ELSE LET token == reg.tokens[tx.contract]
             r == CASE tx.type = "Transfer" -> transfer(token, caller, tx.to, tx.amount)
                    [] tx.type = "Approve" -> approve(token, caller, tx.spender, tx.amount)
                    [] tx.type = "TransferFrom" ->
                           transfer_from(token, caller, tx.from, tx.to, tx.amount)
                    [] tx.type = "Mint" -> mint(token, caller, tx.to, tx.amount)
                    [] tx.type = "Burn" -> burn(token, caller, tx.amount)
                    [] tx.type = "Pause" -> pause(token, caller)
                    [] tx.type = "Unpause" -> unpause(token, caller)
                    [] tx.type = "TransferOwnership" ->
                           transfer_ownership(token, caller, tx.new_owner)
         IN [reg |-> on_token(reg, tx.contract, r).reg, res |-> r.res, addr |-> tx.contract]

\* remove_token that leaves the name index entry behind
remove_token_keeping_name(reg, caller, contract) ==
    IF caller # reg.registry_owner /\ reg.registry_owner # ZeroAddress
    THEN [reg |-> reg, res |-> "OnlyOwner"]
    ELSE IF contract \in DOMAIN reg.tokens
    THEN LET token == reg.tokens[contract]
         IN [reg |-> [reg EXCEPT !.tokens = Remove(@, contract),
                                 !.symbol_to_address = Remove(@, token.symbol)],
             res |-> "Ok"]
    ELSE [reg |-> reg, res |-> "Ok"]

remove_token(reg, caller, contract) ==
    IF caller # reg.registry_owner /\ reg.registry_owner # ZeroAddress
    THEN [reg |-> reg, res |-> "OnlyOwner"]
    ELSE IF contract \in DOMAIN reg.tokens
    THEN LET token == reg.tokens[contract]
         IN [reg |-> [reg EXCEPT !.tokens = Remove(@, contract),
                                 !.symbol_to_address = Remove(@, token.symbol),
                                 !.name_to_address = Remove(@, token.name)],
             res |-> "Ok"]
    ELSE [reg |-> reg, res |-> "Ok"]

transfer_registry_ownership(reg, caller, new_owner) ==
    IF caller # reg.registry_owner /\ reg.registry_owner # ZeroAddress
    THEN [reg |-> reg, res |-> "OnlyOwner"]
    ELSE [reg |-> [reg EXCEPT !.registry_owner = new_owner], res |-> "Ok"]

\* ------------------------------------------------------------------ ERC20Bridge
\* HashMap::get(k).unwrap_or(d)
get_or(m, k, d) == IF k \in DOMAIN m THEN m[k] ELSE d

saturating_sub(a, b) == IF a > b THEN a - b ELSE 0

Bridge == [eth_to_qora_mapping |-> eth_to_qora_mapping,
           qora_to_eth_mapping |-> qora_to_eth_mapping,
           locked_eth_tokens |-> locked_eth_tokens,
           minted_qora_tokens |-> minted_qora_tokens,
           bridge_transactions |-> bridge_transactions,
           bridge_operators |-> bridge_operators,
           min_confirmations |-> min_confirmations,
           bridge_fee_bp |-> bridge_fee_bp,
           bridge_treasury |-> bridge_treasury]

new_with_config(operators, min_conf, fee_bp, treasury) ==
    [eth_to_qora_mapping |-> EmptyMap, qora_to_eth_mapping |-> EmptyMap,
     locked_eth_tokens |-> EmptyMap, minted_qora_tokens |-> EmptyMap,
     bridge_transactions |-> EmptyMap, bridge_operators |-> operators,
     min_confirmations |-> min_conf, bridge_fee_bp |-> fee_bp,
     bridge_treasury |-> treasury]

\* ERC20Bridge::new(): no operator, 12 confirmations, 50 bp, zero treasury
bridge_new == new_with_config(<<>>, 12, 50, ZeroAddress)

\* calculate_bridge_fee that rounds the fee up
calculate_bridge_fee_rounding_up(b, amount) ==
    (amount * b.bridge_fee_bp + 9999) \div 10000

\* amount * bridge_fee_bp / 10000 in U256 (integer division).  The product
\* leaves U256 only for amounts above 2^240, which no amount here stands for.
calculate_bridge_fee(b, amount) == (amount * b.bridge_fee_bp) \div 10000

\* H256::random(): an id no stored record has
random_id(b) == Cardinality(DOMAIN b.bridge_transactions) + 1

\* bridge_from_ethereum that looks the external token up in the reverse map
bridge_from_ethereum_wrong_map(b, reg, eth_token, user, amount, token_name, token_symbol, decimals, eth_tx_hash, confirmations) ==
    LET fee == calculate_bridge_fee(b, amount)
        net_amount == saturating_sub(amount, fee)
        known == eth_token \in DOMAIN b.qora_to_eth_mapping
        \* format!("Bridged {}", token_name), format!("b{}", token_symbol)
        d == deploy_token(reg, user, "Bridged " \o token_name, "b" \o token_symbol,
                          decimals, 0)
        qora_token == IF known THEN b.eth_to_qora_mapping[eth_token] ELSE d.addr
        reg1 == IF known THEN reg ELSE d.reg
        b1 == IF known THEN b
              ELSE [b EXCEPT !.eth_to_qora_mapping = Insert(@, eth_token, qora_token),
                             !.qora_to_eth_mapping = Insert(@, qora_token, eth_token)]
        Stop(bb, rr, res) == [bridge |-> bb, reg |-> rr, res |-> res, addr |-> ZeroAddress]
    IN IF net_amount = 0 THEN Stop(b, reg, "EVMExecutionFailed")
       ELSE IF known /\ qora_token \notin DOMAIN reg.tokens THEN Stop(b, reg, "TokenNotFound")
       ELSE IF ~known /\ d.res # "Ok" THEN Stop(b, reg, d.res)
       ELSE LET token == reg1.tokens[qora_token]
                m == mint(token, token.owner, user, net_amount)
                reg2 == [reg1 EXCEPT !.tokens = Insert(@, qora_token, m.tok)]
                locked == get_or(b1.locked_eth_tokens, eth_token, 0)
                b2 == [b1 EXCEPT !.locked_eth_tokens = Insert(@, eth_token, locked + amount)]
                minted == get_or(b2.minted_qora_tokens, qora_token, 0)
                bridge_tx == [id |-> random_id(b), eth_tx_hash |-> Some(eth_tx_hash),
                              qora_tx_hash |-> None, user |-> user, eth_token |-> eth_token,
                              qora_token |-> qora_token, amount |-> amount,
                              direction |-> "EthereumToQoraNet",
                              status |-> IF confirmations >= b.min_confirmations
                                         THEN "Completed" ELSE "Confirmed",
                              confirmations |-> confirmations, fee_paid |-> fee]
            IN IF m.res # "Mint" THEN Stop(b1, reg2, m.res)
               \* locked + amount, minted + net_amount
               ELSE IF locked + amount > U256Max THEN Stop(b1, reg2, "panic")
               ELSE IF minted + net_amount > U256Max THEN Stop(b2, reg2, "panic")
               ELSE [bridge |-> [b2 EXCEPT
                                    !.minted_qora_tokens = Insert(@, qora_token, minted + net_amount),
                                    !.bridge_transactions = Insert(@, bridge_tx.id, bridge_tx)],
                     reg |-> reg2, res |-> "Ok", addr |-> qora_token]

bridge_from_ethereum(b, reg, eth_token, user, amount, token_name, token_symbol, decimals, eth_tx_hash, confirmations) ==
    LET fee == calculate_bridge_fee(b, amount)
        net_amount == saturating_sub(amount, fee)
        known == eth_token \in DOMAIN b.eth_to_qora_mapping
        \* format!("Bridged {}", token_name), format!("b{}", token_symbol)
        d == deploy_token(reg, user, "Bridged " \o token_name, "b" \o token_symbol,
                          decimals, 0)
        qora_token == IF known THEN b.eth_to_qora_mapping[eth_token] ELSE d.addr
        reg1 == IF known THEN reg ELSE d.reg
        b1 == IF known THEN b
              ELSE [b EXCEPT !.eth_to_qora_mapping = Insert(@, eth_token, qora_token),
                             !.qora_to_eth_mapping = Insert(@, qora_token, eth_token)]
        Stop(bb, rr, res) == [bridge |-> bb, reg |-> rr, res |-> res, addr |-> ZeroAddress]
    IN IF net_amount = 0 THEN Stop(b, reg, "EVMExecutionFailed")
       ELSE IF known /\ qora_token \notin DOMAIN reg.tokens THEN Stop(b, reg, "TokenNotFound")
       ELSE IF ~known /\ d.res # "Ok" THEN Stop(b, reg, d.res)
       ELSE LET token == reg1.tokens[qora_token]
                m == mint(token, token.owner, user, net_amount)
                reg2 == [reg1 EXCEPT !.tokens = Insert(@, qora_token, m.tok)]
                locked == get_or(b1.locked_eth_tokens, eth_token, 0)
                b2 == [b1 EXCEPT !.locked_eth_tokens = Insert(@, eth_token, locked + amount)]
                minted == get_or(b2.minted_qora_tokens, qora_token, 0)
                bridge_tx == [id |-> random_id(b), eth_tx_hash |-> Some(eth_tx_hash),
                              qora_tx_hash |-> None, user |-> user, eth_token |-> eth_token,
                              qora_token |-> qora_token, amount |-> amount,
                              direction |-> "EthereumToQoraNet",
                              status |-> IF confirmations >= b.min_confirmations
                                         THEN "Completed" ELSE "Confirmed",
                              confirmations |-> confirmations, fee_paid |-> fee]
            IN IF m.res # "Mint" THEN Stop(b1, reg2, m.res)
               \* locked + amount, minted + net_amount
               ELSE IF locked + amount > U256Max THEN Stop(b1, reg2, "panic")
               ELSE IF minted + net_amount > U256Max THEN Stop(b2, reg2, "panic")
               ELSE [bridge |-> [b2 EXCEPT
                                    !.minted_qora_tokens = Insert(@, qora_token, minted + net_amount),
                                    !.bridge_transactions = Insert(@, bridge_tx.id, bridge_tx)],
                     reg |-> reg2, res |-> "Ok", addr |-> qora_token]

\* bridge_to_ethereum that forgets to lower minted_qora_tokens
bridge_to_ethereum_keeping_minted(b, reg, qora_token, user, amount) ==
    LET Stop(bb, rr, res) == [bridge |-> bb, reg |-> rr, res |-> res, addr |-> ZeroAddress]
    IN IF qora_token \notin DOMAIN b.qora_to_eth_mapping
       THEN Stop(b, reg, "EVMExecutionFailed")
       ELSE LET eth_token == b.qora_to_eth_mapping[qora_token]
                fee == calculate_bridge_fee(b, amount)
                net_amount == saturating_sub(amount, fee)
            IN IF net_amount = 0 THEN Stop(b, reg, "EVMExecutionFailed")
               ELSE IF qora_token \notin DOMAIN reg.tokens THEN Stop(b, reg, "TokenNotFound")
               ELSE IF balance_of(reg.tokens[qora_token], user) < amount
               THEN Stop(b, reg, "InsufficientBalance")
               ELSE LET bn == burn(reg.tokens[qora_token], user, amount)
                        reg1 == [reg EXCEPT !.tokens = Insert(@, qora_token, bn.tok)]
                        locked == get_or(b.locked_eth_tokens, eth_token, 0)
                        b1 == [b EXCEPT !.locked_eth_tokens =
                                            Insert(@, eth_token, locked - net_amount)]
                        minted == get_or(b1.minted_qora_tokens, qora_token, 0)
                        bridge_tx == [id |-> random_id(b), eth_tx_hash |-> None,
                                      qora_tx_hash |-> Some(random_id(b)), user |-> user,
                                      eth_token |-> eth_token, qora_token |-> qora_token,
                                      amount |-> amount, direction |-> "QoraNetToEthereum",
                                      status |-> "Pending", confirmations |-> 0,
                                      fee_paid |-> fee]
                    IN IF bn.res # "Burn" THEN Stop(b, reg1, bn.res)
                       \* the tokens are burnt by now
                       ELSE IF locked < net_amount THEN Stop(b, reg1, "EVMExecutionFailed")
                       ELSE [bridge |-> [b1 EXCEPT
                                            !.bridge_transactions =
                                                Insert(@, bridge_tx.id, bridge_tx)],
                             reg |-> reg1, res |-> "Ok", addr |-> eth_token]

bridge_to_ethereum(b, reg, qora_token, user, amount) ==
    LET Stop(bb, rr, res) == [bridge |-> bb, reg |-> rr, res |-> res, addr |-> ZeroAddress]
    IN IF qora_token \notin DOMAIN b.qora_to_eth_mapping
       THEN Stop(b, reg, "EVMExecutionFailed")
       ELSE LET eth_token == b.qora_to_eth_mapping[qora_token]
                fee == calculate_bridge_fee(b, amount)
                net_amount == saturating_sub(amount, fee)
            IN IF net_amount = 0 THEN Stop(b, reg, "EVMExecutionFailed")
               ELSE IF qora_token \notin DOMAIN reg.tokens THEN Stop(b, reg, "TokenNotFound")
               ELSE IF balance_of(reg.tokens[qora_token], user) < amount
               THEN Stop(b, reg, "InsufficientBalance")
               ELSE LET bn == burn(reg.tokens[qora_token], user, amount)
                        reg1 == [reg EXCEPT !.tokens = Insert(@, qora_token, bn.tok)]
                        locked == get_or(b.locked_eth_tokens, eth_token, 0)
                        b1 == [b EXCEPT !.locked_eth_tokens =
                                            Insert(@, eth_token, locked - net_amount)]
                        minted == get_or(b1.minted_qora_tokens, qora_token, 0)
                        bridge_tx == [id |-> random_id(b), eth_tx_hash |-> None,
                                      qora_tx_hash |-> Some(random_id(b)), user |-> user,
                                      eth_token |-> eth_token, qora_token |-> qora_token,
                                      amount |-> amount, direction |-> "QoraNetToEthereum",
                                      status |-> "Pending", confirmations |-> 0,
                                      fee_paid |-> fee]
                    IN IF bn.res # "Burn" THEN Stop(b, reg1, bn.res)
                       \* the tokens are burnt by now
                       ELSE IF locked < net_amount THEN Stop(b, reg1, "EVMExecutionFailed")
                       ELSE [bridge |-> [b1 EXCEPT
                                            !.minted_qora_tokens =
                                                Insert(@, qora_token, saturating_sub(minted, amount)),
                                            !.bridge_transactions =
                                                Insert(@, bridge_tx.id, bridge_tx)],
                             reg |-> reg1, res |-> "Ok", addr |-> eth_token]

is_operator(b, address) == \E i \in DOMAIN b.bridge_operators : b.bridge_operators[i] = address

add_operator(b, caller, operator) ==
    IF ~is_operator(b, caller) /\ b.bridge_treasury # ZeroAddress /\ caller # b.bridge_treasury
    THEN [bridge |-> b, res |-> "OnlyOwner"]
    ELSE IF ~is_operator(b, operator)
    THEN [bridge |-> [b EXCEPT !.bridge_operators = Append(@, operator)], res |-> "Ok"]
    ELSE [bridge |-> b, res |-> "Ok"]

remove_operator(b, caller, operator) ==
    IF ~is_operator(b, caller) /\ b.bridge_treasury # ZeroAddress /\ caller # b.bridge_treasury
    THEN [bridge |-> b, res |-> "OnlyOwner"]
    ELSE [bridge |-> [b EXCEPT !.bridge_operators = SelectSeq(@, LAMBDA op : op # operator)],
          res |-> "Ok"]

\* update_transaction_status that also accepts the treasury
update_transaction_status_by_treasury(b, caller, tx_id, status, eth_tx_hash, confirmations) ==
    IF ~is_operator(b, caller) /\ caller # b.bridge_treasury
    THEN [bridge |-> b, res |-> "OnlyOwner"]
    ELSE IF tx_id \notin DOMAIN b.bridge_transactions
    THEN [bridge |-> b, res |-> "EVMExecutionFailed"]
    ELSE [bridge |-> [b EXCEPT !.bridge_transactions[tx_id] =
                         [@ EXCEPT !.status = status,
                                   !.eth_tx_hash = IF eth_tx_hash.some THEN eth_tx_hash ELSE @,
                                   !.confirmations = unwrap_or(confirmations, @)]],
          res |-> "Ok"]

update_transaction_status(b, caller, tx_id, status, eth_tx_hash, confirmations) ==
    IF ~is_operator(b, caller) THEN [bridge |-> b, res |-> "OnlyOwner"]
    ELSE IF tx_id \notin DOMAIN b.bridge_transactions
    THEN [bridge |-> b, res |-> "EVMExecutionFailed"]
    ELSE [bridge |-> [b EXCEPT !.bridge_transactions[tx_id] =
                         [@ EXCEPT !.status = status,
                                   !.eth_tx_hash = IF eth_tx_hash.some THEN eth_tx_hash ELSE @,
                                   !.confirmations = unwrap_or(confirmations, @)]],
          res |-> "Ok"]

set_config(b, caller, min_conf, fee_bp, treasury) ==
    IF b.bridge_treasury # ZeroAddress /\ caller # b.bridge_treasury
    THEN [bridge |-> b, res |-> "OnlyOwner"]
    ELSE LET b1 == [b EXCEPT !.min_confirmations = unwrap_or(min_conf, @)]
         IN \* the fee is checked after min_confirmations is stored
            IF fee_bp.some /\ fee_bp.val > 1000
            THEN [bridge |-> b1, res |-> "EVMExecutionFailed"]
            ELSE [bridge |-> [b1 EXCEPT !.bridge_fee_bp = unwrap_or(fee_bp, @),
                                        !.bridge_treasury = unwrap_or(treasury, @)],
                  res |-> "Ok"]

emergency_pause(b, caller) ==
    IF ~is_operator(b, caller) /\ caller # b.bridge_treasury
    THEN [bridge |-> b, res |-> "OnlyOwner"]
    ELSE [bridge |-> [b EXCEPT !.bridge_transactions =
                         [id \in DOMAIN @ |->
                            IF @[id].status = "Pending"
                            THEN [@[id] EXCEPT !.status = "Cancelled"] ELSE @[id]]],
          res |-> "Ok"]

\* ------------------------------------------------------------------------- f64
\* An f64 is IEEE-754 binary64, here for the values the fee code meets: zero
\* and the positive normal numbers.  A number is m * 2^e with a mantissa m of
\* exactly 53 bits; zero has the empty mantissa.  Mantissas and the exact
\* products and quotients they are rounded from exceed the integers of the
\* model checker, so they are written in base 2^14, lowest digit first, without
\* leading zero digits.  Every operation rounds its exact result to the nearest
\* f64, ties to the even mantissa.
RECURSIVE Pow2(_)
Pow2(k) == IF k = 0 THEN 1 ELSE 2 * Pow2(k - 1)

Base == Pow2(14)

RECURSIVE BigNorm(_)
BigNorm(a) ==
    IF a = <<>> THEN a
    ELSE IF a[Len(a)] = 0 THEN BigNorm(SubSeq(a, 1, Len(a) - 1))
    ELSE a

BigFrom(n) == BigNorm(<<n % Base, (n \div Base) % Base, n \div (Base * Base)>>)

RECURSIVE BigTo(_)
BigTo(a) == IF a = <<>> THEN 0 ELSE a[1] + Base * BigTo(Tail(a))

\* -1, 0, 1 as a is below, equal to, above b
RECURSIVE BigCmp(_, _)
BigCmp(a, b) ==
    IF Len(a) # Len(b) THEN (IF Len(a) < Len(b) THEN -1 ELSE 1)
    ELSE IF a = <<>> THEN 0
    ELSE IF a[Len(a)] # b[Len(b)] THEN (IF a[Len(a)] < b[Len(b)] THEN -1 ELSE 1)
    ELSE BigCmp(SubSeq(a, 1, Len(a) - 1), SubSeq(b, 1, Len(b) - 1))

RECURSIVE BigAddC(_, _, _)
BigAddC(a, b, carry) ==
    IF a = <<>> /\ b = <<>> THEN (IF carry = 0 THEN <<>> ELSE <<carry>>)
    ELSE LET x == IF a = <<>> THEN 0 ELSE a[1]
             y == IF b = <<>> THEN 0 ELSE b[1]
             s == x + y + carry
         IN <<s % Base>> \o BigAddC(IF a = <<>> THEN a ELSE Tail(a),
                                     IF b = <<>> THEN b ELSE Tail(b), s \div Base)

BigAdd(a, b) == BigAddC(a, b, 0)

\* a - b - borrow for a >= b + borrow, leading zero digits kept
RECURSIVE BigSubB(_, _, _)
BigSubB(a, b, borrow) ==
    IF a = <<>> THEN <<>>
    ELSE LET y == IF b = <<>> THEN 0 ELSE b[1]
             d == a[1] - y - borrow
         IN <<IF d < 0 THEN d + Base ELSE d>>
            \o BigSubB(Tail(a), IF b = <<>> THEN b ELSE Tail(b), IF d < 0 THEN 1 ELSE 0)

BigSub(a, b) == BigNorm(BigSubB(a, b, 0))

\* a * d + carry for a digit d
RECURSIVE BigMulDigit(_, _, _)
BigMulDigit(a, d, carry) ==
    IF a = <<>> THEN (IF carry = 0 THEN <<>> ELSE <<carry>>)
    ELSE LET p == a[1] * d + carry
         IN <<p % Base>> \o BigMulDigit(Tail(a), d, p \div Base)

RECURSIVE BigMul(_, _)
BigMul(a, b) ==
    IF b = <<>> \/ a = <<>> THEN <<>>
    ELSE BigAdd(BigMulDigit(a, b[1], 0),
                LET rest == BigMul(a, Tail(b)) IN IF rest = <<>> THEN rest ELSE <<0>> \o rest)

\* a * 2^k
BigShl(a, k) ==
    IF a = <<>> THEN a
    ELSE [i \in 1..(k \div 14) |-> 0] \o BigMulDigit(a, Pow2(k % 14), 0)

\* a \div d for a digit d, from the highest digit down; rem is the running
\* remainder
RECURSIVE BigDivDigit(_, _, _)
BigDivDigit(a, d, rem) ==
    IF a = <<>> THEN <<>>
    ELSE LET cur == rem * Base + a[Len(a)]
         IN BigDivDigit(SubSeq(a, 1, Len(a) - 1), d, cur % d) \o <<cur \div d>>

\* a \div 2^k
BigShr(a, k) ==
    IF k \div 14 >= Len(a) THEN <<>>
    ELSE BigNorm(BigDivDigit(SubSeq(a, k \div 14 + 1, Len(a)), Pow2(k % 14), 0))

RECURSIVE BitLen(_)
BitLen(n) == IF n = 0 THEN 0 ELSE 1 + BitLen(n \div 2)

BigBitLen(a) == IF a = <<>> THEN 0 ELSE 14 * (Len(a) - 1) + BitLen(a[Len(a)])

BigOdd(a) == a # <<>> /\ a[1] % 2 = 1

f64_zero == [m |-> <<>>, e |-> 0]

\* the f64 nearest to n * 2^e, or to a value just above it when inexact is
\* set (0 < value - n * 2^e < 2^e)
f64_round(n, e, inexact) ==
    IF n = <<>> THEN f64_zero
    ELSE IF BigBitLen(n) <= 53 THEN [m |-> BigShl(n, 53 - BigBitLen(n)),
                                     e |-> e - (53 - BigBitLen(n))]
    ELSE LET s == BigBitLen(n) - 53
             keep == BigShr(n, s)
             rest == BigSub(n, BigShl(keep, s))
             half == BigCmp(rest, BigShl(<<1>>, s - 1))
             up == half = 1 \/ (half = 0 /\ (inexact \/ BigOdd(keep)))
             m == IF up THEN BigAdd(keep, <<1>>) ELSE keep
         IN IF BigBitLen(m) = 54 THEN [m |-> BigShr(m, 1), e |-> e + s + 1]
            ELSE [m |-> m, e |-> e + s]

\* n as f64, for an integer n
f64_from(n) == f64_round(BigFrom(n), 0, FALSE)

f64_mul(a, b) ==
    IF a.m = <<>> \/ b.m = <<>> THEN f64_zero
    ELSE f64_round(BigMul(a.m, b.m), a.e + b.e, FALSE)

\* the largest digit g in lo..hi with g * d <= rem
RECURSIVE QuotDigit(_, _, _, _)
QuotDigit(rem, d, lo, hi) ==
    IF lo = hi THEN lo
    ELSE LET mid == (lo + hi + 1) \div 2
         IN IF BigCmp(BigMulDigit(d, mid, 0), rem) <= 0 THEN QuotDigit(rem, d, mid, hi)
            ELSE QuotDigit(rem, d, lo, mid - 1)

\* long division of rem * Base^k by d for rem < Base * d: the quotient, its
\* k + 1 digits lowest first, and whether a remainder is left
RECURSIVE DivDigits(_, _, _)
DivDigits(rem, d, k) ==
    LET g == QuotDigit(rem, d, 0, Base - 1)
        r1 == BigSub(rem, BigMulDigit(d, g, 0))
    IN IF k = 0 THEN [q |-> <<g>>, inexact |-> r1 # <<>>]
       ELSE LET next == DivDigits(IF r1 = <<>> THEN r1 ELSE <<0>> \o r1, d, k - 1)
            IN [q |-> next.q \o <<g>>, inexact |-> next.inexact]

\* a / b from the quotient of the mantissas carried to 56 binary places
f64_div(a, b) ==
    IF a.m = <<>> THEN f64_zero
    ELSE LET t == DivDigits(a.m, b.m, 4)
         IN f64_round(BigNorm(t.q), a.e - b.e - 56, t.inexact)

f64_lt(a, b) ==
    IF b.m = <<>> THEN FALSE
    ELSE IF a.m = <<>> THEN TRUE
    ELSE a.e < b.e \/ (a.e = b.e /\ BigCmp(a.m, b.m) < 0)

\* a + b, exact when the exponents are at most 55 apart and else a with a
\* trace of b below its last bit
f64_add(a, b) ==
    IF a.m = <<>> THEN b
    ELSE IF b.m = <<>> THEN a
    ELSE LET hi == IF a.e >= b.e THEN a ELSE b
             lo == IF a.e >= b.e THEN b ELSE a
         IN IF hi.e - lo.e > 55 THEN f64_round(BigShl(hi.m, 2), hi.e - 2, TRUE)
            ELSE f64_round(BigAdd(BigShl(hi.m, hi.e - lo.e), lo.m), lo.e, FALSE)

\* x as u64 for a result within the integers of the model: the fraction is
\* dropped
f64_as_u64(a) ==
    IF a.m = <<>> THEN 0
    ELSE IF a.e >= 0 THEN BigTo(BigShl(a.m, a.e))
    ELSE BigTo(BigShr(a.m, 0 - a.e))

f64_clamp(x, min, max) ==
    IF f64_lt(x, min) THEN min ELSE IF f64_lt(max, x) THEN max ELSE x

\* ------------------------------------------------------------------- FeeOracle
\* the decimal literal n / d of the source, for integers n and d
Literal(n, d) == f64_div(f64_from(n), f64_from(d))

MIN_FEE_USD == Literal(1, 10000)

MAX_FEE_USD == Literal(1, 100)

DEFAULT_FEE_USD == Literal(1, 10000)

\* 1_000_000_000.0, the smallest units in one QOR
UnitsPerQor == f64_from(1000000000)

\* (qor_amount * 1_000_000_000.0) as u64; the amounts of the model stay far
\* below the u64 range, where the cast drops the fraction and nothing else
usd_to_qor(usd_amount, price) ==
    IF ~f64_lt(f64_zero, price) THEN 0
    ELSE f64_as_u64(f64_mul(f64_div(usd_amount, price), UnitsPerQor))

qor_to_usd(qor_amount, price) ==
    f64_mul(f64_div(f64_from(qor_amount), UnitsPerQor), price)

TransactionTypes ==
    {"Transfer", "ProvideLiquidity", "RegisterApp", "ReportMetrics", "ClaimRewards",
     "SmartContractSimple", "SmartContractMedium", "SmartContractComplex"}

FeePriorities == {"Low", "Medium", "High", "Urgent"}

\* the class multipliers of get_base_fee_usd, each the literal n / d as <<n, d>>
ClassRatio ==
    [Transfer |-> <<1, 1>>, ProvideLiquidity |-> <<2, 1>>, RegisterApp |-> <<5, 1>>,
     ReportMetrics |-> <<1, 2>>, ClaimRewards |-> <<3, 2>>, SmartContractSimple |-> <<3, 1>>,
     SmartContractMedium |-> <<10, 1>>, SmartContractComplex |-> <<50, 1>>]

ClassMultiplier ==
    [tx_type \in TransactionTypes |-> Literal(ClassRatio[tx_type][1], ClassRatio[tx_type][2])]

get_base_fee_usd(tx_type) == f64_mul(DEFAULT_FEE_USD, ClassMultiplier[tx_type])

PriorityMultiplier ==
    [Low |-> Literal(1, 1), Medium |-> Literal(3, 2), High |-> Literal(2, 1),
     Urgent |-> Literal(5, 1)]

\* Urgent at half the multiplier of Low
get_priority_multiplier_urgent_discount(priority) ==
    IF priority = "Urgent" THEN f64_div(PriorityMultiplier.Low, PriorityMultiplier.High)
    ELSE PriorityMultiplier[priority]

get_priority_multiplier(priority) == PriorityMultiplier[priority]

\* final_fee_usd of calculate_fee, the fee in USD before conversion
final_fee_usd(tx_type, priority) ==
    f64_clamp(f64_mul(get_base_fee_usd(tx_type), get_priority_multiplier(priority)),
              MIN_FEE_USD, MAX_FEE_USD)

calculate_fee(oracle, tx_type, priority) ==
    usd_to_qor(final_fee_usd(tx_type, priority), oracle.qor_price_usd)

validate_fee(oracle, fee_qor, tx_type) ==
    LET fee_usd == qor_to_usd(fee_qor, oracle.qor_price_usd)
        min_required_usd == get_base_fee_usd(tx_type)
    IN IF f64_lt(fee_usd, min_required_usd) THEN "InvalidTransaction"
       ELSE IF f64_lt(MAX_FEE_USD, fee_usd) THEN "InvalidTransaction"
       ELSE "Ok"

\* update_interval, in seconds
UpdateInterval == 60

\* weight of each configured source, in the order of price_sources
SourceWeights == <<Literal(4, 10), Literal(4, 10), Literal(2, 10)>>

\* 1.0, the price a new oracle starts with
DefaultPrice == Literal(1, 1)

\* the oracle as constructed at time
FeeOracle_new(time) == [qor_price_usd |-> DefaultPrice, last_update |-> time]

Answered_any(responses) == \E i \in 1..Len(responses) : responses[i].some

\* the loop of update_price over the sources from i on; responses[i] is None
\* for a source that gave an error and Some(price) otherwise.  This one
\* counts the weight of every source, responding or not.
RECURSIVE fetch_all_counting_every_weight(_, _, _, _)
fetch_all_counting_every_weight(responses, i, total_weighted_price, total_weight) ==
    IF i > Len(responses) THEN [total_weighted_price |-> total_weighted_price,
                                total_weight |-> total_weight]
    ELSE IF ~responses[i].some
    THEN fetch_all_counting_every_weight(responses, i + 1, total_weighted_price,
                                         f64_add(total_weight, SourceWeights[i]))
    ELSE fetch_all_counting_every_weight(responses, i + 1,
             f64_add(total_weighted_price, f64_mul(responses[i].val, SourceWeights[i])),
             f64_add(total_weight, SourceWeights[i]))

RECURSIVE fetch_all(_, _, _, _)
fetch_all(responses, i, total_weighted_price, total_weight) ==
    IF i > Len(responses) THEN [total_weighted_price |-> total_weighted_price,
                                total_weight |-> total_weight]
    ELSE IF ~responses[i].some
    THEN fetch_all(responses, i + 1, total_weighted_price, total_weight)
    ELSE fetch_all(responses, i + 1,
                   f64_add(total_weighted_price, f64_mul(responses[i].val, SourceWeights[i])),
                   f64_add(total_weight, SourceWeights[i]))

\* update_price whose average counts the weight of every source
update_price_counting_every_weight(oracle, responses, started, finished) ==
    IF started - oracle.last_update < UpdateInterval THEN [oracle |-> oracle, res |-> "Ok"]
    ELSE LET t == fetch_all_counting_every_weight(responses, 1, f64_zero, f64_zero)
         IN IF Answered_any(responses)
            THEN [oracle |-> [qor_price_usd |-> f64_div(t.total_weighted_price, t.total_weight),
                              last_update |-> finished],
                  res |-> "Ok"]
            ELSE [oracle |-> oracle, res |-> "Ok"]

\* update_price entered at time started, its fetches answered by responses,
\* and finished at time finished
update_price(oracle, responses, started, finished) ==
    IF started - oracle.last_update < UpdateInterval THEN [oracle |-> oracle, res |-> "Ok"]
    ELSE LET t == fetch_all(responses, 1, f64_zero, f64_zero)
         IN IF f64_lt(f64_zero, t.total_weight)
            THEN [oracle |-> [qor_price_usd |-> f64_div(t.total_weighted_price, t.total_weight),
                              last_update |-> finished],
                  res |-> "Ok"]
            ELSE [oracle |-> oracle, res |-> "Ok"]

\* ------------------------------------------------- Transaction, TransactionPool
\* A signature is named by the address of the key that made it; the key of an
\* address is the only one whose signatures verify against that address.
verify_signature(tx) ==
    IF tx.signature = tx.signer THEN "Ok" ELSE "InvalidTransaction"

\* validate that skips the fee check
validate_without_fee_check(tx) ==
    IF verify_signature(tx) # "Ok" THEN verify_signature(tx)
    ELSE IF tx.data.type = "Transfer" /\ tx.data.amount = 0 THEN "InvalidTransaction"
    ELSE IF tx.data.type = "ClaimRewards" /\ tx.data.lp_rewards = 0
            /\ tx.data.app_rewards = 0 THEN "InvalidTransaction"
    ELSE "Ok"

\* the fee amounts of the transactions submitted to the pool
PoolFees == {0, 100000, 200000, 20000000}

\* The least and the greatest fee amount validate_fee accepts at the price a
\* new oracle has, 1.0, which the oracle of the node keeps.  The USD value of
\* an amount grows with the amount, so these limits say all there is to say;
\* 150000 units are refused for ClaimRewards (0.0001 * 1.5 lies above
\* 150000.0 / 1e9 in f64), 150001 are accepted.
PoolMinFee == [Transfer |-> 100000, ClaimRewards |-> 150001]

PoolMaxFee == [Transfer |-> 10000000, ClaimRewards |-> 10000000]

\* validate_fee of the node's oracle
pool_validate_fee(fee_qor, tx_type) ==
    IF fee_qor < PoolMinFee[tx_type] THEN "InvalidTransaction"
    ELSE IF fee_qor > PoolMaxFee[tx_type] THEN "InvalidTransaction"
    ELSE "Ok"

validate(tx) ==
    IF verify_signature(tx) # "Ok" THEN verify_signature(tx)
    ELSE IF pool_validate_fee(tx.fee_qor, tx.data.type) # "Ok"
    THEN pool_validate_fee(tx.fee_qor, tx.data.type)
    ELSE IF tx.data.type = "Transfer" /\ tx.data.amount = 0 THEN "InvalidTransaction"
    ELSE IF tx.data.type = "ClaimRewards" /\ tx.data.lp_rewards = 0
            /\ tx.data.app_rewards = 0 THEN "InvalidTransaction"
    ELSE "Ok"

\* Hash::new(bincode::serialize(self)): the digest of every field of the
\* record, taken to be free of collisions
hash(tx) == <<tx.data, tx.nonce, tx.fee_qor, tx.priority, tx.signature, tx.signer>>

Pool == [pending |-> pending, by_signer |-> by_signer]

pool_new == [pending |-> EmptyMap, by_signer |-> EmptyMap]

add_transaction(pool, transaction) ==
    IF validate(transaction) # "Ok" THEN [pool |-> pool, res |-> validate(transaction)]
    ELSE LET tx_hash == hash(transaction)
             signer == transaction.signer
         IN [pool |-> [pending |-> Insert(pool.pending, tx_hash, transaction),
                       by_signer |-> Insert(pool.by_signer, signer,
                                            Append(get_or(pool.by_signer, signer, <<>>),
                                                   tx_hash))],
             res |-> "Ok"]

\* remove_transaction that leaves a signer key with an empty list behind
remove_transaction_keeping_signer(pool, tx_hash) ==
    IF tx_hash \in DOMAIN pool.pending
    THEN LET transaction == pool.pending[tx_hash]
             signer == transaction.signer
             tx_hashes == SelectSeq(get_or(pool.by_signer, signer, <<>>),
                                    LAMBDA h : h # tx_hash)
         IN [pool |-> [pending |-> Remove(pool.pending, tx_hash),
                       by_signer |-> IF signer \notin DOMAIN pool.by_signer
                                     THEN pool.by_signer
                                     ELSE Insert(pool.by_signer, signer, tx_hashes)],
             res |-> Some(transaction)]
    ELSE [pool |-> pool, res |-> None]

remove_transaction(pool, tx_hash) ==
    IF tx_hash \in DOMAIN pool.pending
    THEN LET transaction == pool.pending[tx_hash]
             signer == transaction.signer
             tx_hashes == SelectSeq(get_or(pool.by_signer, signer, <<>>),
                                    LAMBDA h : h # tx_hash)
         IN [pool |-> [pending |-> Remove(pool.pending, tx_hash),
                       by_signer |-> IF signer \notin DOMAIN pool.by_signer
                                     THEN pool.by_signer
                                     ELSE IF tx_hashes = <<>>
                                     THEN Remove(pool.by_signer, signer)
                                     ELSE Insert(pool.by_signer, signer, tx_hashes)],
             res |-> Some(transaction)]
    ELSE [pool |-> pool, res |-> None]

\* self.pending.values().take(max_count): HashMap iteration order is arbitrary,
\* so any max_count (or all) of the pending transactions in any order
\* a selection that takes one transaction less than allowed
get_transactions_for_block_taking_one_less(pool, max_count) ==
    LET n == IF Cardinality(DOMAIN pool.pending) < max_count
             THEN Cardinality(DOMAIN pool.pending) - 1 ELSE max_count - 1
        m == IF n < 0 THEN 0 ELSE n
    IN {[i \in 1..m |-> pool.pending[f[i]]] :
            f \in {g \in [1..m -> DOMAIN pool.pending] :
                      \A i \in 1..m, j \in 1..m : i # j => g[i] # g[j]}}

get_transactions_for_block(pool, max_count) ==
    LET n == IF Cardinality(DOMAIN pool.pending) < max_count
             THEN Cardinality(DOMAIN pool.pending) ELSE max_count
    IN {[i \in 1..n |-> pool.pending[f[i]]] :
            f \in {g \in [1..n -> DOMAIN pool.pending] :
                      \A i \in 1..n, j \in 1..n : i # j => g[i] # g[j]}}

pending_count(pool) == Cardinality(DOMAIN pool.pending)

RECURSIVE remove_all(_, _)
remove_all(pool, txs) ==
    IF txs = <<>> THEN pool
    ELSE remove_all(remove_transaction(pool, hash(Head(txs))).pool, Tail(txs))

\* ------------------------------------------------------ Hash, BlockHeader, Block
\* Hash::zero() is the empty tuple and Hash::new(data) is data under the tag
\* "H": a hash function without collisions that never yields the zero hash.
\* u64 is the range 0..U64Max.  A Result is a record of its kind and, for an
\* error, its message.
Hash_zero == <<>>

Hash_new(data) == <<"H", data>>

U64 == 0..U64Max

Ok == [res |-> "Ok", msg |-> ""]

ConsensusError(msg) == [res |-> "ConsensusError", msg |-> msg]

RECURSIVE SumFees(_)
SumFees(txs) ==
    IF txs = <<>> THEN 0 ELSE Head(txs).fee_qor + SumFees(Tail(txs))

\* transactions.iter().map(|tx| tx.fee_qor).sum() in u64: a sum beyond the
\* maximum panics in a build with overflow checks and wraps in one without
sum_fee_qor(txs, checks) ==
    IF SumFees(txs) <= U64Max THEN [res |-> "Ok", val |-> SumFees(txs)]
    ELSE IF checks THEN [res |-> "panic", val |-> 0]
    ELSE [res |-> "Ok", val |-> SumFees(txs) % (U64Max + 1)]

\* for chunk in hashes.chunks(2): one level of the tree
RECURSIVE next_level(_)
next_level(hashes) ==
    IF hashes = <<>> THEN <<>>
    ELSE IF Len(hashes) = 1 THEN <<Hash_new(<<hashes[1], hashes[1]>>)>>
    ELSE <<Hash_new(<<hashes[1], hashes[2]>>)>> \o next_level(SubSeq(hashes, 3, Len(hashes)))

\* while hashes.len() > 1 { hashes = next_level }; hashes[0]
RECURSIVE build_merkle_tree(_)
build_merkle_tree(hashes) ==
    IF Len(hashes) > 1 THEN build_merkle_tree(next_level(hashes)) ELSE hashes[1]

\* calculate_transactions_root that treats a single transaction as an unpaired
\* node
calculate_transactions_root_pairing_single(txs) ==
    IF txs = <<>> THEN Hash_zero
    ELSE IF Len(txs) = 1 THEN Hash_new(<<hash(txs[1]), hash(txs[1])>>)
    ELSE build_merkle_tree([i \in DOMAIN txs |-> hash(txs[i])])

calculate_transactions_root(txs) ==
    IF txs = <<>> THEN Hash_zero
    ELSE build_merkle_tree([i \in DOMAIN txs |-> hash(txs[i])])

\* BlockHeader::new at wall-clock time time
BlockHeader_new(previous_hash, transactions_root, height, validator, total_liquidity, active_apps, total_fees, time) ==
    [previous_hash |-> previous_hash, transactions_root |-> transactions_root,
     height |-> height, timestamp |-> time, validator |-> validator,
     total_liquidity |-> total_liquidity, active_apps |-> active_apps,
     total_fees |-> total_fees, version |-> 1, nonce |-> 0]

BlockHeader_hash(header) ==
    Hash_new(<<header.previous_hash, header.transactions_root, header.height,
               header.timestamp, header.validator, header.total_liquidity,
               header.active_apps, header.total_fees, header.version, header.nonce>>)

BlockHeader_validate(header, expected_height, expected_previous, time) ==
    IF header.height # expected_height THEN ConsensusError("Invalid block height")
    ELSE IF header.previous_hash # expected_previous
    THEN ConsensusError("Invalid previous block hash")
    ELSE IF header.timestamp > time + 300
    THEN ConsensusError("Block timestamp too far in the future")
    ELSE Ok

\* Block::new at wall-clock time time; res is "panic" when the fee sum panics
Block_new(previous_hash, height, validator, txs, total_liquidity, active_apps, time, checks) ==
    [res |-> sum_fee_qor(txs, checks).res,
     block |-> [header |-> BlockHeader_new(previous_hash, calculate_transactions_root(txs),
                                           height, validator, total_liquidity, active_apps,
                                           sum_fee_qor(txs, checks).val, time),
                transactions |-> txs]]

Block_hash(b) == BlockHeader_hash(b.header)

Block_validate(b, expected_height, expected_previous, time, checks) ==
    LET h == BlockHeader_validate(b.header, expected_height, expected_previous, time)
        calculated_fees == sum_fee_qor(b.transactions, checks)
    IN IF h.res # "Ok" THEN h
       ELSE IF calculate_transactions_root(b.transactions) # b.header.transactions_root
       THEN ConsensusError("Invalid transactions root")
       ELSE IF calculated_fees.res = "panic" THEN [res |-> "panic", msg |-> ""]
       ELSE IF calculated_fees.val # b.header.total_fees
       THEN ConsensusError("Invalid total fees")
       ELSE IF \E i \in DOMAIN b.transactions : verify_signature(b.transactions[i]) # "Ok"
       THEN [res |-> "InvalidTransaction", msg |-> "Invalid signature"]
       ELSE Ok

genesis(genesis_validator, time) ==
    Block_new(Hash_zero, 0, genesis_validator, <<>>, 0, 0, time, FALSE).block

\* --------------------------------------------------------------- BlockchainStorage
\* The database outlives the process; StorageCache is rebuilt from the metadata
\* by BlockchainStorage::new.
db_new == [blocks |-> EmptyMap, heights |-> EmptyMap, transactions |-> EmptyMap,
           metadata |-> EmptyMap]

StorageCache_new == [latest_block_hash |-> None, latest_block_height |-> 0]

get_latest_block_info(c) == <<c.latest_block_hash, c.latest_block_height>>

\* load_latest_block_info on the fresh cache of BlockchainStorage::new
load_latest_block_info(d) ==
    [latest_block_height |-> get_or(d.metadata, "latest_block_height", 0),
     latest_block_hash |-> IF "latest_block_hash" \in DOMAIN d.metadata
                           THEN Some(d.metadata["latest_block_hash"]) ELSE None]

\* store_block_transactions stopped after its first n writes
RECURSIVE store_block_transactions(_, _, _)
store_block_transactions(txs_cf, txs, n) ==
    IF n = 0 \/ txs = <<>> THEN txs_cf
    ELSE store_block_transactions(Insert(txs_cf, hash(Head(txs)), Head(txs)), Tail(txs), n - 1)

\* store_block that leaves the cache as it is
store_block_keeping_cache(d, c, b, completed) ==
    LET n == Len(b.transactions)
        d1 == IF completed >= 1 THEN [d EXCEPT !.blocks = Insert(@, Block_hash(b), b)] ELSE d
        d2 == IF completed >= 2
              THEN [d1 EXCEPT !.heights = Insert(@, b.header.height, Block_hash(b))] ELSE d1
        d3 == [d2 EXCEPT !.transactions =
                   store_block_transactions(@, b.transactions,
                                            IF completed >= 2 THEN completed - 2 ELSE 0)]
        d4 == IF completed >= n + 3
              THEN [d3 EXCEPT !.metadata = Insert(@, "latest_block_hash", Block_hash(b))]
              ELSE d3
        d5 == IF completed >= n + 4
              THEN [d4 EXCEPT !.metadata = Insert(@, "latest_block_height", b.header.height)]
              ELSE d4
    IN [db |-> d5,
        cache |-> c,
        res |-> IF completed >= n + 4 THEN "Ok" ELSE "StorageError"]

\* store_block of which the first completed writes succeed: the block under its
\* hash, the hash under "height:h", each transaction, then (after the cache
\* update) the metadata latest_block_hash and latest_block_height; the write
\* after them, if there is one, fails and store_block returns its error
store_block(d, c, b, completed) ==
    LET n == Len(b.transactions)
        d1 == IF completed >= 1 THEN [d EXCEPT !.blocks = Insert(@, Block_hash(b), b)] ELSE d
        d2 == IF completed >= 2
              THEN [d1 EXCEPT !.heights = Insert(@, b.header.height, Block_hash(b))] ELSE d1
        d3 == [d2 EXCEPT !.transactions =
                   store_block_transactions(@, b.transactions,
                                            IF completed >= 2 THEN completed - 2 ELSE 0)]
        d4 == IF completed >= n + 3
              THEN [d3 EXCEPT !.metadata = Insert(@, "latest_block_hash", Block_hash(b))]
              ELSE d3
        d5 == IF completed >= n + 4
              THEN [d4 EXCEPT !.metadata = Insert(@, "latest_block_height", b.header.height)]
              ELSE d4
    IN [db |-> d5,
        cache |-> IF completed >= n + 2
                  THEN [latest_block_hash |-> Some(Block_hash(b)),
                        latest_block_height |-> b.header.height]
                  ELSE c,
        res |-> IF completed >= n + 4 THEN "Ok" ELSE "StorageError"]

\* the number of individual writes of store_block
store_block_writes(b) == Len(b.transactions) + 4

\* ValidatorNode::initialize_genesis at wall-clock time time
initialize_genesis(d, c, address, time, completed) ==
    IF ~get_latest_block_info(c)[1].some /\ get_latest_block_info(c)[2] = 0
    THEN store_block(d, c, genesis(address, time), completed)
    ELSE [db |-> d, cache |-> c, res |-> "Ok"]

\* ------------------------------------------------------------ Balance, TokenBalance
Balance_new(amount) == [amount |-> amount]

Balance_zero == [amount |-> 0]

\* u64::checked_add and checked_sub: None when the result is not a u64
checked_add(a, b) == IF a + b > U64Max THEN None ELSE Some(a + b)

checked_sub(a, b) == IF a < b THEN None ELSE Some(a - b)

Balance_add(b, other) ==
    IF ~checked_add(b.amount, other).some THEN [balance |-> b, res |-> "InvalidTransaction"]
    ELSE [balance |-> [b EXCEPT !.amount = checked_add(b.amount, other).val], res |-> "Ok"]

Balance_subtract(b, other) ==
    IF ~checked_sub(b.amount, other).some THEN [balance |-> b, res |-> "InsufficientLiquidity"]
    ELSE [balance |-> [b EXCEPT !.amount = checked_sub(b.amount, other).val], res |-> "Ok"]

TokenBalance_new == [balances |-> EmptyMap]

get_token_balance(tb, token_address) == get_or(tb.balances, token_address, 0)

\* add_tokens with wrapping addition
add_tokens_wrapping(tb, token_address, amount) ==
    [token_balance |-> [tb EXCEPT !.balances =
                           Insert(@, token_address,
                                  (get_token_balance(tb, token_address) + amount)
                                      % (U64Max + 1))],
     res |-> "Ok"]

add_tokens(tb, token_address, amount) ==
    LET current == get_or(tb.balances, token_address, 0)
        new_balance == checked_add(current, amount)
    IN IF ~new_balance.some THEN [token_balance |-> tb, res |-> "InvalidTransaction"]
       ELSE [token_balance |-> [tb EXCEPT !.balances = Insert(@, token_address, new_balance.val)],
             res |-> "Ok"]

subtract_tokens(tb, token_address, amount) ==
    LET current == get_or(tb.balances, token_address, 0)
        new_balance == checked_sub(current, amount)
    IN IF ~new_balance.some THEN [token_balance |-> tb, res |-> "InsufficientLiquidity"]
       ELSE [token_balance |-> [tb EXCEPT !.balances = Insert(@, token_address, new_balance.val)],
             res |-> "Ok"]

\* the Vec of (address, amount) pairs, as the set of its elements
get_all_balances(tb) ==
    {<<addr, tb.balances[addr]>> : addr \in {a \in DOMAIN tb.balances : tb.balances[a] > 0}}

\* ------------------------------------------------------------------- actions
InitReg(reg) ==
    /\ tokens = reg.tokens
    /\ symbol_to_address = reg.symbol_to_address
    /\ name_to_address = reg.name_to_address
    /\ next_contract_id = reg.next_contract_id
    /\ registry_owner = reg.registry_owner

SetReg(reg) ==
    /\ tokens' = reg.tokens
    /\ symbol_to_address' = reg.symbol_to_address
    /\ name_to_address' = reg.name_to_address
    /\ next_contract_id' = reg.next_contract_id
    /\ registry_owner' = reg.registry_owner

InitBridgeState(b) ==
    /\ eth_to_qora_mapping = b.eth_to_qora_mapping
    /\ qora_to_eth_mapping = b.qora_to_eth_mapping
    /\ locked_eth_tokens = b.locked_eth_tokens
    /\ minted_qora_tokens = b.minted_qora_tokens
    /\ bridge_transactions = b.bridge_transactions
    /\ bridge_operators = b.bridge_operators
    /\ min_confirmations = b.min_confirmations
    /\ bridge_fee_bp = b.bridge_fee_bp
    /\ bridge_treasury = b.bridge_treasury

SetBridge(b) ==
    /\ eth_to_qora_mapping' = b.eth_to_qora_mapping
    /\ qora_to_eth_mapping' = b.qora_to_eth_mapping
    /\ locked_eth_tokens' = b.locked_eth_tokens
    /\ minted_qora_tokens' = b.minted_qora_tokens
    /\ bridge_transactions' = b.bridge_transactions
    /\ bridge_operators' = b.bridge_operators
    /\ min_confirmations' = b.min_confirmations
    /\ bridge_fee_bp' = b.bridge_fee_bp
    /\ bridge_treasury' = b.bridge_treasury

\* an empty pool, the genesis block stored, the production task between cycles
InitNodeState ==
    /\ pending = pool_new.pending
    /\ by_signer = pool_new.by_signer
    /\ blocks = <<[height |-> 0, transactions |-> <<>>]>>
    /\ pc = "idle"
    /\ transactions = <<>>

\* the clock at 2, the genesis block at hand, nothing validated yet
InitBlockState(checks) ==
    /\ block = genesis(1, 0)
    /\ now = 2
    /\ validated = None
    /\ overflow_checks = checks

\* an empty database, nothing cached
InitChainState ==
    /\ db = db_new
    /\ cache = StorageCache_new
    /\ write_failed = FALSE

InitOracleState ==
    /\ qor_price_usd = FeeOracle_new(0).qor_price_usd
    /\ last_update = FeeOracle_new(0).last_update

InitAccountState ==
    /\ accounts = EmptyMap
    /\ account_cache = EmptyMap

\* ConsensusState::new: no height reached yet
ConsensusState_new == [current_height |-> 0]

\* the locals of try_produce_block before the cycle has started
cycle_idle ==
    [selected_validator |-> None, previous_hash |-> Hash_zero, new_height |-> 0,
     validation |-> "none", stored |-> "none", purged |-> FALSE]

InitCycleState ==
    /\ current_height = ConsensusState_new.current_height
    /\ cycle = cycle_idle
    /\ admitted = {}

\* the tasks of the node and the four RwLocks they share
Tasks == {"main", "production", "fee", "submit"}

Locks == {"consensus", "storage", "pool", "oracle"}

\* no lock is held or waited for; main is about to call initialize_genesis and
\* has not spawned the other tasks
InitLockState ==
    /\ locks = [l \in Locks |-> [holders |-> {}, queue |-> <<>>]]
    /\ task_pc = [t \in Tasks |-> IF t = "main" THEN "g189" ELSE "unspawned"]

InitExtraState ==
    /\ InitAccountState
    /\ InitCycleState
    /\ InitLockState

InitLedgerState ==
    /\ InitBlockState(FALSE)
    /\ InitChainState
    /\ balance = Balance_zero
    /\ token_balance = TokenBalance_new
    /\ InitOracleState
    /\ InitExtraState

ApprovalOf(c, owner, spender) ==
    IF <<c, owner, spender>> \in DOMAIN approvals
    THEN approvals[<<c, owner, spender>>]
    ELSE [approved |-> 0, moved |-> 0]

IsDeploy(tx) == tx.type \in {"Deploy", "deploy_token"}

Deployed(tx, r) == IsDeploy(tx) /\ r.res \in {"Deploy", "Ok"}

\* what a transfer_from call has taken out of tx.from's balance: the amount when
\* it succeeds, and what it had already debited when it stops half way
Debited(tx, r) ==
    IF r.res = "Transfer" THEN tx.amount
    ELSE IF tx.contract \in DOMAIN tokens
    THEN balance_of(tokens[tx.contract], tx.from) - balance_of(r.reg.tokens[tx.contract], tx.from)
    ELSE 0

\* one call: the registry becomes r.reg, the history variables follow
Step(bound, caller, tx, r) ==
    /\ steps < bound
    /\ steps' = steps + 1
    /\ SetReg(r.reg)
    /\ last' = [type |-> tx.type, res |-> r.res]
    /\ ever_deployed' = IF Deployed(tx, r) THEN ever_deployed \cup {r.addr}
                        ELSE ever_deployed
    /\ requested' =
         IF Deployed(tx, r)
         THEN Insert(requested, r.addr,
                     [mintable |-> unwrap_or(tx.mintable, TRUE),
                      burnable |-> unwrap_or(tx.burnable, TRUE)])
         ELSE IF tx.type = "remove_token" /\ r.res = "Ok" THEN Remove(requested, tx.contract)
         ELSE requested
    /\ approvals' =
         IF r.res = "Approval"
         THEN Insert(approvals, <<tx.contract, caller, tx.spender>>,
                     [approved |-> tx.amount, moved |-> 0])
         ELSE IF tx.type = "TransferFrom" /\ Debited(tx, r) > 0
         THEN Insert(approvals, <<tx.contract, tx.from, caller>>,
                     [ApprovalOf(tx.contract, tx.from, caller) EXCEPT
                         !.moved = @ + Debited(tx, r)])
         ELSE approvals
    /\ UNCHANGED <<bridge_vars, node_vars, ledger_vars>>

InitHistory ==
    /\ last = [type |-> "new", res |-> "Ok"]
    /\ ever_deployed = {}
    /\ requested = EmptyMap
    /\ approvals = EmptyMap
    /\ steps = 0

OptU256 == {None} \cup {Some(v) : v \in U256}

OptBool == {None, Some(TRUE), Some(FALSE)}

DeployTxs(names, symbols, totals, max_supplies, mintables, burnables) ==
    {[type |-> "Deploy", name |-> n, symbol |-> s, decimals |-> d, total_supply |-> t,
      max_supply |-> mx, mintable |-> mi, burnable |-> bu] :
        n \in names, s \in symbols, d \in DecimalsSet, t \in totals,
        mx \in max_supplies, mi \in mintables, bu \in burnables}

TransferTxs == {[type |-> "Transfer", contract |-> c, to |-> to, amount |-> a] :
                    c \in ContractIds, to \in Addr, a \in U256}

ApproveTxs == {[type |-> "Approve", contract |-> c, spender |-> sp, amount |-> a] :
                    c \in ContractIds, sp \in Addr, a \in U256}

TransferFromTxs == {[type |-> "TransferFrom", contract |-> c, from |-> f, to |-> to,
                     amount |-> a] :
                        c \in ContractIds, f \in Addr, to \in Addr, a \in U256}

MintTxs == {[type |-> "Mint", contract |-> c, to |-> to, amount |-> a] :
                c \in ContractIds, to \in Addr, a \in U256}

BurnTxs == {[type |-> "Burn", contract |-> c, amount |-> a] :
                c \in ContractIds, a \in U256}

PauseTxs == {[type |-> "Pause", contract |-> c] : c \in ContractIds}

UnpauseTxs == {[type |-> "Unpause", contract |-> c] : c \in ContractIds}

TransferOwnershipTxs ==
    {[type |-> "TransferOwnership", contract |-> c, new_owner |-> n] :
        c \in ContractIds, n \in Addr}

TokenTxs == TransferTxs \cup ApproveTxs \cup TransferFromTxs \cup MintTxs \cup BurnTxs
            \cup PauseTxs \cup UnpauseTxs \cup TransferOwnershipTxs

Execute(bound, caller, tx) == Step(bound, caller, tx, execute_transaction(Reg, caller, tx))

\* ---- the token engine: one registry, one token deployed into it
Init ==
    /\ InitReg(registry_new)
    /\ InitHistory
    /\ InitBridgeState(bridge_new)
    /\ InitNodeState
    /\ InitLedgerState

ExecuteDeploy ==
    \E caller \in Addr, tx \in DeployTxs({"Token A"}, {"TKA"}, U256, OptU256, OptBool, OptBool) :
        /\ next_contract_id = FirstContractId
        /\ Execute(MaxSteps, caller, tx)

ExecuteTransfer ==
    \E caller \in Addr, tx \in TransferTxs :
        /\ tx.type = "Transfer"
        /\ Execute(MaxSteps, caller, tx)

ExecuteApprove ==
    \E caller \in Addr, tx \in ApproveTxs :
        /\ tx.type = "Approve"
        /\ Execute(MaxSteps, caller, tx)

ExecuteTransferFrom ==
    \E caller \in Addr, tx \in TransferFromTxs :
        /\ tx.type = "TransferFrom"
        /\ Execute(MaxSteps, caller, tx)

ExecuteMint ==
    \E caller \in Addr, tx \in MintTxs :
        /\ tx.type = "Mint"
        /\ Execute(MaxSteps, caller, tx)

ExecuteBurn ==
    \E caller \in Addr, tx \in BurnTxs :
        /\ tx.type = "Burn"
        /\ Execute(MaxSteps, caller, tx)

ExecutePause ==
    \E caller \in Addr, tx \in PauseTxs :
        /\ tx.type = "Pause"
        /\ Execute(MaxSteps, caller, tx)

ExecuteUnpause ==
    \E caller \in Addr, tx \in UnpauseTxs :
        /\ tx.type = "Unpause"
        /\ Execute(MaxSteps, caller, tx)

ExecuteTransferOwnership ==
    \E caller \in Addr, tx \in TransferOwnershipTxs :
        /\ tx.type = "TransferOwnership"
        /\ Execute(MaxSteps, caller, tx)

Next ==
    \/ ExecuteDeploy
    \/ ExecuteTransfer
    \/ ExecuteApprove
    \/ ExecuteTransferFrom
    \/ ExecuteMint
    \/ ExecuteBurn
    \/ ExecutePause
    \/ ExecuteUnpause
    \/ ExecuteTransferOwnership

Spec == Init /\ [][Next]_vars

\* ---- the registry: several tokens deployed, removed and operated on
InitRegistry ==
    /\ \E owner \in Addr \cup {ZeroAddress} : InitReg(with_owner(owner))
    /\ InitHistory
    /\ InitBridgeState(bridge_new)
    /\ InitNodeState
    /\ InitLedgerState

DeployToken ==
    \E deployer \in Addr, name \in Names, symbol \in Symbols, decimals \in DecimalsSet,
       total_supply \in U256 :
        /\ next_contract_id < FirstContractId + MaxDeploys
        /\ Step(MaxRegistrySteps, deployer,
                [type |-> "deploy_token", total_supply |-> total_supply,
                 max_supply |-> None, mintable |-> Some(TRUE), burnable |-> Some(TRUE)],
                deploy_token(Reg, deployer, name, symbol, decimals, total_supply))

RegistryExecuteDeploy ==
    \E caller \in Addr,
       tx \in DeployTxs(Names, Symbols, {U256Max}, {Some(U256Max)}, {Some(FALSE)}, {None}) :
        /\ next_contract_id < FirstContractId + MaxDeploys
        /\ Execute(MaxRegistrySteps, caller, tx)

RegistryTokenTxs ==
    {tx \in TransferTxs \cup MintTxs \cup BurnTxs : tx.amount = 1}
        \cup PauseTxs \cup TransferOwnershipTxs

RegistryExecuteToken ==
    \E caller \in Addr, tx \in RegistryTokenTxs :
        /\ tx.type \in {"Transfer", "Mint", "Burn", "Pause", "TransferOwnership"}
        /\ Execute(MaxRegistrySteps, caller, tx)

RemoveToken ==
    \E caller \in Addr, contract \in ContractIds :
        LET r == remove_token(Reg, caller, contract)
        IN /\ r.res \in {"Ok", "OnlyOwner"}
           /\ Step(MaxRegistrySteps, caller,
                   [type |-> "remove_token", contract |-> contract],
                   [reg |-> r.reg, res |-> r.res, addr |-> contract])

TransferRegistryOwnership ==
    \E caller \in Addr, new_owner \in Addr \cup {ZeroAddress} :
        LET r == transfer_registry_ownership(Reg, caller, new_owner)
        IN /\ r.res \in {"Ok", "OnlyOwner"}
           /\ Step(MaxRegistrySteps, caller, [type |-> "transfer_registry_ownership"],
                   [reg |-> r.reg, res |-> r.res, addr |-> ZeroAddress])

NextRegistry ==
    \/ DeployToken
    \/ RegistryExecuteDeploy
    \/ RegistryExecuteToken
    \/ RemoveToken
    \/ TransferRegistryOwnership

SpecRegistry == InitRegistry /\ [][NextRegistry]_vars

\* ---- the bridge: bridging both ways, fee changes, and the registry's token
\* operations on the wrapped tokens
EthTokens == {998, 999}

TokenSymbols == {"USDC", "USDT"}

\* ERC20Bridge::new(), or new_with_config with a fee of one half
InitBridge ==
    /\ InitReg(registry_new)
    /\ InitHistory
    /\ InitNodeState
    /\ InitLedgerState
    /\ \E fee_bp \in {50, 5000} :
          InitBridgeState(new_with_config(<<>>, 12, fee_bp, ZeroAddress))

\* one bridge call: registry and bridge become o.reg and o.bridge
BridgeStep(bound, type, o) ==
    /\ steps < bound
    /\ steps' = steps + 1
    /\ SetReg(o.reg)
    /\ SetBridge(o.bridge)
    /\ last' = [type |-> type, res |-> o.res]
    /\ UNCHANGED <<history_vars, node_vars, ledger_vars>>

BridgeFromEthereum ==
    \E eth_token \in EthTokens, user \in Addr, amount \in U256, token_symbol \in TokenSymbols,
       decimals \in DecimalsSet, confirmations \in {0, 12} :
        /\ eth_token \in EthTokens
        /\ BridgeStep(MaxBridgeSteps, "bridge_from_ethereum",
                      bridge_from_ethereum(Bridge, Reg, eth_token, user, amount, token_symbol,
                                           token_symbol, decimals, 1, confirmations))

BridgeToEthereum ==
    \E qora_token \in ContractIds, user \in Addr, amount \in U256 :
        /\ qora_token \in ContractIds
        /\ BridgeStep(MaxBridgeSteps, "bridge_to_ethereum",
                      bridge_to_ethereum(Bridge, Reg, qora_token, user, amount))

BridgeExecuteToken ==
    \E caller \in Addr, tx \in {t \in RegistryTokenTxs : t.type # "TransferOwnership"} :
        /\ tx.contract \in DOMAIN tokens
        /\ Execute(MaxBridgeSteps, caller, tx)

BridgeRemoveToken ==
    \E caller \in Addr, contract \in ContractIds :
        LET r == remove_token(Reg, caller, contract)
        IN /\ contract \in DOMAIN tokens
           /\ Step(MaxBridgeSteps, caller, [type |-> "remove_token", contract |-> contract],
                   [reg |-> r.reg, res |-> r.res, addr |-> contract])

\* set_config called for the fee alone
SetFee ==
    \E caller \in Addr, fee_bp \in {Some(0), Some(50), Some(5000)} :
        LET r == set_config(Bridge, caller, None, fee_bp, None)
        IN /\ r.res \in {"Ok", "OnlyOwner", "EVMExecutionFailed"}
           /\ BridgeStep(MaxBridgeSteps, "set_config",
                         [bridge |-> r.bridge, reg |-> Reg, res |-> r.res])

NextBridge ==
    \/ BridgeFromEthereum
    \/ BridgeToEthereum
    \/ BridgeExecuteToken
    \/ BridgeRemoveToken
    \/ SetFee

SpecBridge == InitBridge /\ [][NextBridge]_vars

\* ---- the bridge's administration: operators, the treasury, record statuses
InitOperators ==
    /\ InitReg(registry_new)
    /\ InitHistory
    /\ InitNodeState
    /\ InitLedgerState
    /\ \E operators \in {<<>>, <<1>>}, treasury \in {ZeroAddress, 2} :
          InitBridgeState(new_with_config(operators, 12, 50, treasury))

OperatorsBridgeFromEthereum ==
    \E user \in Addr, decimals \in DecimalsSet :
        /\ user \in Addr
        /\ BridgeStep(MaxOperatorsSteps, "bridge_from_ethereum",
                      bridge_from_ethereum(Bridge, Reg, 999, user, U256Max, "USDC", "USDC",
                                           decimals, 1, 0))

OperatorsBridgeToEthereum ==
    \E user \in Addr, amount \in U256 \ {0} :
        /\ user \in Addr
        /\ BridgeStep(MaxOperatorsSteps, "bridge_to_ethereum",
                      bridge_to_ethereum(Bridge, Reg, FirstContractId, user, amount))

AddOperator ==
    \E caller \in Addr, operator \in Addr :
        LET r == add_operator(Bridge, caller, operator)
        IN /\ r.res \in {"Ok", "OnlyOwner"}
           /\ BridgeStep(MaxOperatorsSteps, "add_operator",
                         [bridge |-> r.bridge, reg |-> Reg, res |-> r.res])

RemoveOperator ==
    \E caller \in Addr, operator \in Addr :
        LET r == remove_operator(Bridge, caller, operator)
        IN /\ r.res \in {"Ok", "OnlyOwner"}
           /\ BridgeStep(MaxOperatorsSteps, "remove_operator",
                         [bridge |-> r.bridge, reg |-> Reg, res |-> r.res])

UpdateTransactionStatus ==
    \E caller \in Addr, tx_id \in 1..MaxOperatorsSteps, status \in {"Completed", "Failed"},
       eth_tx_hash \in {None, Some(2)}, confirmations \in {None, Some(12)} :
        LET r == update_transaction_status(Bridge, caller, tx_id, status, eth_tx_hash,
                                           confirmations)
        IN /\ r.res \in {"Ok", "OnlyOwner", "EVMExecutionFailed"}
           /\ BridgeStep(MaxOperatorsSteps, "update_transaction_status",
                         [bridge |-> r.bridge, reg |-> Reg, res |-> r.res])

SetConfig ==
    \E caller \in Addr, min_conf \in {None, Some(1)}, fee_bp \in {None, Some(5000)},
       treasury \in {None, Some(1)} :
        LET r == set_config(Bridge, caller, min_conf, fee_bp, treasury)
        IN /\ r.res \in {"Ok", "OnlyOwner", "EVMExecutionFailed"}
           /\ BridgeStep(MaxOperatorsSteps, "set_config",
                         [bridge |-> r.bridge, reg |-> Reg, res |-> r.res])

EmergencyPause ==
    \E caller \in Addr :
        LET r == emergency_pause(Bridge, caller)
        IN /\ r.res \in {"Ok", "OnlyOwner"}
           /\ BridgeStep(MaxOperatorsSteps, "emergency_pause",
                         [bridge |-> r.bridge, reg |-> Reg, res |-> r.res])

NextOperators ==
    \/ OperatorsBridgeFromEthereum
    \/ OperatorsBridgeToEthereum
    \/ AddOperator
    \/ RemoveOperator
    \/ UpdateTransactionStatus
    \/ SetConfig
    \/ EmergencyPause

SpecOperators == InitOperators /\ [][NextOperators]_vars

\* ---- the transaction pool: add_transaction and remove_transaction
PoolTxs ==
    {[data |-> [type |-> "Transfer", from |-> s, to |-> 1, amount |-> a], nonce |-> n,
      fee_qor |-> f, priority |-> "Medium", signature |-> k, signer |-> s] :
        s \in Addr, a \in {0, 1}, n \in {0, 1}, f \in PoolFees \ {200000}, k \in Addr}
    \cup
    {[data |-> [type |-> "ClaimRewards", claimant |-> s, lp_rewards |-> r, app_rewards |-> 0],
      nonce |-> 0, fee_qor |-> 200000, priority |-> "Medium", signature |-> s, signer |-> s] :
        s \in Addr, r \in {0, 1}}

\* one pool or node step: the pool becomes pool
NodeStep(bound, type, res, pool) ==
    /\ steps < bound
    /\ steps' = steps + 1
    /\ pending' = pool.pending
    /\ by_signer' = pool.by_signer
    /\ last' = [type |-> type, res |-> res]
    /\ UNCHANGED <<registry_vars, history_vars, bridge_vars, ledger_vars>>

AddTransaction ==
    \E transaction \in PoolTxs :
        LET r == add_transaction(Pool, transaction)
        IN /\ r.res \in {"Ok", "InvalidTransaction"}
           /\ NodeStep(MaxPoolSteps, "add_transaction", r.res, r.pool)
           /\ UNCHANGED <<blocks, pc, transactions>>

RemoveTransaction ==
    \E transaction \in PoolTxs :
        LET r == remove_transaction(Pool, hash(transaction))
        IN /\ r.res \in {None, Some(transaction)}
           /\ NodeStep(MaxPoolSteps, "remove_transaction",
                       IF r.res.some THEN "Some" ELSE "None", r.pool)
           /\ UNCHANGED <<blocks, pc, transactions>>

NextPool ==
    \/ AddTransaction
    \/ RemoveTransaction

SpecPool == Init /\ [][NextPool]_vars

\* ---- the validator node: submissions to the pool while the block production
\* task runs try_produce_block, each lock section of which is one step
NodeTxs == {tx \in PoolTxs : tx.data.type = "Transfer" /\ tx.nonce = 0 /\ tx.fee_qor # 0
                             /\ tx.signature = tx.signer}

Submit ==
    \E transaction \in NodeTxs :
        LET r == add_transaction(Pool, transaction)
        IN /\ r.res \in {"Ok", "InvalidTransaction"}
           /\ NodeStep(MaxNodeSteps, "add_transaction", r.res, r.pool)
           /\ UNCHANGED <<blocks, pc, transactions>>

\* select_block_producer, then the pool is read under its read lock
ReadPool ==
    \E selected \in BOOLEAN, txs \in get_transactions_for_block(Pool, MaxTransactionsPerBlock) :
        /\ pc = "idle"
        /\ NodeStep(MaxNodeSteps, "try_produce_block", IF selected THEN "selected" ELSE "None",
                    Pool)
        /\ pc' = IF selected THEN "read" ELSE "idle"
        /\ transactions' = IF selected THEN txs ELSE transactions
        /\ UNCHANGED blocks

\* Block::new, block.validate, storage.store_block under the storage write lock
StoreBlock ==
    \E stored \in BOOLEAN :
        /\ pc = "read"
        /\ NodeStep(MaxNodeSteps, "store_block", IF stored THEN "Ok" ELSE "StorageError", Pool)
        /\ blocks' = IF stored
                     THEN Append(blocks, [height |-> Len(blocks), transactions |-> transactions])
                     ELSE blocks
        /\ pc' = IF stored THEN "stored" ELSE "idle"
        /\ UNCHANGED transactions

\* for tx in &transactions { pool.remove_transaction(&tx.hash()) } under the
\* pool write lock
PurgePool ==
    /\ pc = "stored"
    /\ NodeStep(MaxNodeSteps, "try_produce_block", "Some", remove_all(Pool, transactions))
    /\ pc' = "idle"
    /\ UNCHANGED <<blocks, transactions>>

NextNode ==
    \/ Submit
    \/ ReadPool
    \/ StoreBlock
    \/ PurgePool

SpecNode == Init /\ [][NextNode]_vars

\* ---- blocks: built by Block::new or received from a peer, validated against
\* an expected height and previous hash while the wall clock advances
Times == {0, 1, 2, 302, 303}

BlockTxs ==
    {[data |-> [type |-> "Transfer", from |-> 1, to |-> 2, amount |-> 1], nonce |-> 0,
      fee_qor |-> f, priority |-> "Medium", signature |-> k, signer |-> 1] :
        <<f, k>> \in {<<1, 1>>, <<U64Max, 1>>, <<1, 2>>}}

TxLists(n) == UNION {[1..k -> BlockTxs] : k \in 0..n}

Heights == {1, 2}

PrevHashes == {Hash_zero, Block_hash(genesis(1, 0))}

InitBlock ==
    /\ InitReg(registry_new)
    /\ InitHistory
    /\ InitBridgeState(bridge_new)
    /\ InitNodeState
    /\ \E checks \in BOOLEAN : InitBlockState(checks)
    /\ InitChainState
    /\ balance = Balance_zero
    /\ token_balance = TokenBalance_new
    /\ InitOracleState
    /\ InitExtraState

BlockStep(type, res) ==
    /\ steps < MaxBlockSteps
    /\ steps' = steps + 1
    /\ last' = [type |-> type, res |-> res]
    /\ UNCHANGED <<registry_vars, history_vars, bridge_vars, node_vars, chain_vars,
                   balance_vars, oracle_vars, extra_vars>>

NewBlock ==
    \E txs \in TxLists(MaxBlockTxs) :
        LET r == Block_new(Block_hash(genesis(1, 0)), 1, 1, txs, 0, 0, now, overflow_checks)
        IN /\ BlockStep("Block::new", r.res)
           /\ block' = IF r.res = "Ok" THEN r.block ELSE block
           /\ validated' = None
           /\ UNCHANGED <<now, overflow_checks>>

\* a block of a peer: as the peer's Block::new made it, but for one header field
ReceiveBlock ==
    \E height \in Heights, txs \in TxLists(1) :
        LET b == Block_new(Block_hash(genesis(1, 0)), height, 2, txs, 0, 0, now, FALSE).block
        IN /\ BlockStep("receive", "Ok")
           /\ block' \in {[b EXCEPT !.header.timestamp = t] : t \in Times}
                         \cup {[b EXCEPT !.header.total_fees = f] : f \in {0, 1, 2, U64Max}}
                         \cup {[b EXCEPT !.header.transactions_root = r] :
                                  r \in {Hash_zero} \cup {hash(tx) : tx \in BlockTxs}}
           /\ validated' = None
           /\ UNCHANGED <<now, overflow_checks>>

ValidateBlock ==
    \E expected_height \in Heights, expected_previous \in PrevHashes :
        LET r == Block_validate(block, expected_height, expected_previous, now,
                                overflow_checks)
        IN /\ BlockStep("validate", r.res)
           /\ validated' = Some([block |-> block, expected_height |-> expected_height,
                                 expected_previous |-> expected_previous, res |-> r])
           /\ UNCHANGED <<block, now, overflow_checks>>

Tick ==
    \E time \in Times :
        /\ time > now
        /\ BlockStep("tick", "Ok")
        /\ now' = time
        /\ UNCHANGED <<block, validated, overflow_checks>>

NextBlock ==
    \/ NewBlock
    \/ ReceiveBlock
    \/ ValidateBlock
    \/ Tick

SpecBlock == InitBlock /\ [][NextBlock]_vars

\* ---- the chain: the node is started on its database (BlockchainStorage::new,
\* initialize_genesis), runs production cycles while transactions are
\* submitted, stops at any moment and is started again
ChainTimes == {2, 3}

ChainStep(type, res) ==
    /\ steps < MaxChainSteps
    /\ steps' = steps + 1
    /\ last' = [type |-> type, res |-> res]
    /\ UNCHANGED <<registry_vars, history_vars, bridge_vars, blocks, validated,
                   overflow_checks, balance_vars, oracle_vars, extra_vars>>

InitChain ==
    /\ InitReg(registry_new)
    /\ InitHistory
    /\ InitBridgeState(bridge_new)
    /\ InitLedgerState
    /\ pending = pool_new.pending
    /\ by_signer = pool_new.by_signer
    /\ blocks = <<>>
    /\ pc = "down"
    /\ transactions = <<>>

\* ValidatorNode::new and start up to the spawn of the tasks
Start ==
    \E completed \in 0..store_block_writes(genesis(1, now)) :
        LET r == initialize_genesis(db, load_latest_block_info(db), 1, now, completed)
        IN /\ pc = "down"
           /\ r.res = "StorageError" <=> completed < store_block_writes(genesis(1, now))
           /\ ChainStep("initialize_genesis", r.res)
           /\ db' = r.db
           /\ cache' = IF r.res = "Ok" THEN r.cache ELSE StorageCache_new
           /\ write_failed' = (write_failed \/ r.res # "Ok")
           /\ pc' = IF r.res = "Ok" THEN "idle" ELSE "down"
           /\ pending' = pool_new.pending
           /\ by_signer' = pool_new.by_signer
           /\ UNCHANGED <<transactions, block, now>>

\* the process stops; what it held in memory is gone
Stop ==
    /\ pc # "down"
    /\ ChainStep("stop", "Ok")
    /\ pc' = "down"
    /\ cache' = StorageCache_new
    /\ pending' = pool_new.pending
    /\ by_signer' = pool_new.by_signer
    /\ UNCHANGED <<db, write_failed, transactions, block, now>>

ChainSubmit ==
    \E transaction \in NodeTxs :
        LET r == add_transaction(Pool, transaction)
        IN /\ pc # "down"
           /\ ChainStep("add_transaction", r.res)
           /\ pending' = r.pool.pending
           /\ by_signer' = r.pool.by_signer
           /\ UNCHANGED <<pc, transactions, block, now, chain_vars>>

\* try_produce_block up to block.validate: latest block info, producer
\* selection, the pool read, Block::new, validate
BuildBlock ==
    \E selected \in BOOLEAN, txs \in get_transactions_for_block(Pool, MaxTransactionsPerBlock) :
        LET previous_hash == unwrap_or(get_latest_block_info(cache)[1], Hash_zero)
            new_height == get_latest_block_info(cache)[2] + 1
            b == Block_new(previous_hash, new_height, 1, txs, 0, 0, now, overflow_checks)
            v == Block_validate(b.block, new_height, previous_hash, now, overflow_checks)
            built == selected /\ b.res = "Ok" /\ v.res = "Ok"
        IN /\ pc = "idle"
           /\ ChainStep("try_produce_block",
                        IF ~selected THEN "None" ELSE IF b.res # "Ok" THEN b.res ELSE v.res)
           /\ pc' = IF built THEN "validated" ELSE "idle"
           /\ block' = IF built THEN b.block ELSE block
           /\ transactions' = IF built THEN txs ELSE transactions
           /\ UNCHANGED <<pending, by_signer, now, chain_vars>>

\* storage.store_block(&block)? under the storage write lock
WriteBlock ==
    \E completed \in 0..store_block_writes(block) :
        LET r == store_block(db, cache, block, completed)
        IN /\ pc = "validated"
           /\ ChainStep("store_block", r.res)
           /\ db' = r.db
           /\ cache' = r.cache
           /\ write_failed' = (write_failed \/ r.res # "Ok")
           /\ pc' = IF r.res = "Ok" THEN "stored" ELSE "idle"
           /\ UNCHANGED <<pending, by_signer, transactions, block, now>>

\* the pool purge under the pool write lock; the cycle ends
Purge ==
    /\ pc = "stored"
    /\ ChainStep("try_produce_block", "Some")
    /\ pending' = remove_all(Pool, transactions).pending
    /\ by_signer' = remove_all(Pool, transactions).by_signer
    /\ pc' = "idle"
    /\ UNCHANGED <<transactions, block, now, chain_vars>>

ChainTick ==
    \E time \in ChainTimes :
        /\ time > now
        /\ ChainStep("tick", "Ok")
        /\ now' = time
        /\ UNCHANGED <<node_vars, block, chain_vars>>

NextChain ==
    \/ Start
    \/ Stop
    \/ ChainSubmit
    \/ BuildBlock
    \/ WriteBlock
    \/ Purge
    \/ ChainTick

SpecChain == InitChain /\ [][NextChain]_vars

\* ---- balances: one Balance and one TokenBalance under add and subtract
Amounts == {0, 1, U64Max - 1, U64Max}

TokenAddrs == {ZeroAddress, 1}

InitBalance ==
    /\ InitReg(registry_new)
    /\ InitHistory
    /\ InitBridgeState(bridge_new)
    /\ InitNodeState
    /\ InitBlockState(FALSE)
    /\ InitChainState
    /\ \E amount \in Amounts : balance = Balance_new(amount)
    /\ token_balance = TokenBalance_new
    /\ InitOracleState
    /\ InitExtraState

BalanceStep(type, res) ==
    /\ steps < MaxBalanceSteps
    /\ steps' = steps + 1
    /\ last' = [type |-> type, res |-> res]
    /\ UNCHANGED <<registry_vars, history_vars, bridge_vars, node_vars, block_vars, chain_vars,
                   oracle_vars, extra_vars>>

Add ==
    \E other \in Amounts :
        /\ BalanceStep("add", Balance_add(balance, other).res)
        /\ balance' = Balance_add(balance, other).balance
        /\ UNCHANGED token_balance

Subtract ==
    \E other \in Amounts :
        /\ BalanceStep("subtract", Balance_subtract(balance, other).res)
        /\ balance' = Balance_subtract(balance, other).balance
        /\ UNCHANGED token_balance

AddTokens ==
    \E token_address \in TokenAddrs, amount \in Amounts :
        /\ BalanceStep("add_tokens", add_tokens(token_balance, token_address, amount).res)
        /\ token_balance' = add_tokens(token_balance, token_address, amount).token_balance
        /\ UNCHANGED balance

SubtractTokens ==
    \E token_address \in TokenAddrs, amount \in Amounts :
        /\ BalanceStep("subtract_tokens",
                       subtract_tokens(token_balance, token_address, amount).res)
        /\ token_balance' = subtract_tokens(token_balance, token_address, amount).token_balance
        /\ UNCHANGED balance

NextBalance ==
    \/ Add
    \/ Subtract
    \/ AddTokens
    \/ SubtractTokens

SpecBalance == InitBalance /\ [][NextBalance]_vars

\* ------------------------------------------------------------------ SpecOracle
\* The fee oracle alone: time passes, the refresh task calls update_price, and
\* clients ask for fees and have fee amounts validated.
Oracle == [qor_price_usd |-> qor_price_usd, last_update |-> last_update]

\* what the three sources may answer to one refresh: an error or a price
Responses ==
    {<<a, b, c>> : a \in {None, Some(Literal(3, 1))}, b \in {None, Some(Literal(1, 2))},
                   c \in {None, Some(Literal(3, 2))}}

\* fee amounts handed to validate_fee: usd_to_qor of $0.00005 and of $0.0002,
\* the base fees at the default price, and the amounts around the maximum
FeeAmounts ==
    {usd_to_qor(Literal(5, 100000), qor_price_usd), usd_to_qor(Literal(2, 10000), qor_price_usd),
     100000, 150000, 10000000, 10000001}

InitOracle ==
    /\ InitReg(registry_new)
    /\ InitHistory
    /\ InitBridgeState(bridge_new)
    /\ InitNodeState
    /\ InitLedgerState

OracleStep(type, res) ==
    /\ steps < MaxOracleSteps
    /\ steps' = steps + 1
    /\ last' = [type |-> type, res |-> res]
    /\ UNCHANGED <<registry_vars, history_vars, bridge_vars, node_vars, block, validated,
                   overflow_checks, chain_vars, balance_vars, extra_vars>>

UpdatePrice ==
    \E responses \in Responses, took \in {0, 1} :
        LET r == update_price(Oracle, responses, now, now + took)
        IN /\ OracleStep("update_price", r.res)
           /\ qor_price_usd' = r.oracle.qor_price_usd
           /\ last_update' = r.oracle.last_update
           /\ now' = now + took

CalculateFee ==
    \E tx_type \in TransactionTypes, priority \in FeePriorities :
        /\ OracleStep("calculate_fee", calculate_fee(Oracle, tx_type, priority))
        /\ UNCHANGED <<oracle_vars, now>>

ValidateFee ==
    \E fee_qor \in FeeAmounts, tx_type \in TransactionTypes :
        /\ OracleStep("validate_fee", validate_fee(Oracle, fee_qor, tx_type))
        /\ UNCHANGED <<oracle_vars, now>>

OracleTick ==
    \E passed \in {29, 58} :
        /\ OracleStep("tick", "Ok")
        /\ now' = now + passed
        /\ UNCHANGED oracle_vars

NextOracle ==
    \/ UpdatePrice
    \/ CalculateFee
    \/ ValidateFee
    \/ OracleTick

SpecOracle == InitOracle /\ [][NextOracle]_vars

\* ---------------------------------------------------------------- properties
Live == DOMAIN tokens

\* what execute_transaction would return in the current state
Outcome(caller, tx) == execute_transaction(Reg, caller, tx)

On(c, txs) == {tx \in txs : tx.contract = c}

\* C1: in every token the sum of all entries of the balances map equals
\* total_supply, after any sequence of deploy, transfer, transfer_from, mint and
\* burn calls.
C1_SumOfBalancesIsTotalSupply ==
    \A c \in Live : SumBalances(tokens[c]) = tokens[c].total_supply

\* C2: a transfer, transfer_from, mint or burn that returns an error leaves the
\* token (balances, allowances, total_supply, owner, paused) as it was.
C2_ErrorLeavesTokenUnchanged ==
    [][(last'.type \in {"Transfer", "TransferFrom", "Mint", "Burn"} /\ last'.res \in Errors)
          => tokens' = tokens]_vars

C2_Witness ==
    /\ last.type = "Mint"
    /\ last.res = "WouldExceedMaxSupply"
    /\ \E c \in Live : tokens[c].total_supply > 0

\* C3: a token deployed with a nonzero max_supply never has total_supply above
\* max_supply, right after deployment and after any operations.
C3_TotalSupplyWithinMaxSupply ==
    \A c \in Live : tokens[c].max_supply # 0 => tokens[c].total_supply <= tokens[c].max_supply

\* C4: a deployed token carries the mintable and burnable flags requested at
\* deployment, so one requested with mintable=false rejects every mint and one
\* requested with burnable=false rejects every burn.
C4_FlagsAsRequested ==
    \A c \in Live :
        /\ tokens[c].mintable = requested[c].mintable
        /\ tokens[c].burnable = requested[c].burnable
        /\ ~requested[c].mintable =>
              \A caller \in Addr, tx \in On(c, MintTxs) : Outcome(caller, tx).res \in Errors
        /\ ~requested[c].burnable =>
              \A caller \in Addr, tx \in On(c, BurnTxs) : Outcome(caller, tx).res \in Errors

\* C5: while a token is paused every transfer, approve, transfer_from, mint and
\* burn on it fails and changes nothing; once the owner has unpaused it, none of
\* them is refused for being paused.
PausableTxs == TransferTxs \cup ApproveTxs \cup TransferFromTxs \cup MintTxs \cup BurnTxs

C5_PausedRejectsEverything ==
    /\ \A c \in Live : \A caller \in Addr, tx \in On(c, PausableTxs) :
          IF tokens[c].paused
          THEN Outcome(caller, tx).res \in Errors /\ Outcome(caller, tx).reg = Reg
          ELSE Outcome(caller, tx).res # "TokenPaused"
    /\ \A c \in Live : \A tx \in On(c, UnpauseTxs) :
          LET r == Outcome(tokens[c].owner, tx)
          IN r.res = "PauseStatusChanged" /\ ~r.reg.tokens[c].paused
    /\ (last.type = "Unpause" /\ last.res = "PauseStatusChanged")
          => \A c \in Live : ~tokens[c].paused

C5_Witness ==
    /\ last.type = "Transfer"
    /\ last.res = "TokenPaused"
    /\ \E c \in Live : tokens[c].paused /\ tokens[c].total_supply > 0

\* C6: mint, pause, unpause and transfer_ownership take effect only for the
\* current owner; any other caller gets OnlyOwner and nothing changes.  After a
\* successful transfer_ownership the previous owner is rejected by all four and
\* the new owner is not.
OwnerTxs == MintTxs \cup PauseTxs \cup UnpauseTxs \cup TransferOwnershipTxs

C6_OnlyOwner ==
    \A c \in Live : \A caller \in Addr, tx \in On(c, OwnerTxs) :
        /\ caller # tokens[c].owner =>
              Outcome(caller, tx).res = "OnlyOwner" /\ Outcome(caller, tx).reg = Reg
        /\ caller = tokens[c].owner => Outcome(caller, tx).res # "OnlyOwner"
        /\ (tx.type = "TransferOwnership" /\ caller = tokens[c].owner) =>
              LET r == Outcome(caller, tx)
              IN /\ r.res = "OwnershipTransferred"
                 /\ r.reg.tokens[c].owner = tx.new_owner
                 /\ \A tx2 \in On(c, OwnerTxs) :
                       /\ execute_transaction(r.reg, tx.new_owner, tx2).res # "OnlyOwner"
                       /\ caller # tx.new_owner =>
                             execute_transaction(r.reg, caller, tx2).res = "OnlyOwner"

C6_Witness ==
    /\ last.type = "Unpause"
    /\ last.res = "OnlyOwner"
    /\ \E c \in Live : tokens[c].owner \notin DOMAIN tokens[c].balances

\* C7: approve replaces the stored allowance; transfer_from succeeds only with
\* allowance >= amount and balance >= amount and then lowers the allowance by
\* exactly amount and moves amount from from to to; so what a spender has moved
\* since the last approval never exceeds the approved amount.
C7_AllowanceBoundsSpending ==
    /\ \A c \in Live : \A caller \in Addr, tx \in On(c, ApproveTxs) :
          LET r == Outcome(caller, tx)
          IN r.res = "Approval" =>
                allowance(r.reg.tokens[c], caller, tx.spender) = tx.amount
    /\ \A c \in Live : \A caller \in Addr, tx \in On(c, TransferFromTxs) :
          LET r == Outcome(caller, tx)
              pre == tokens[c]
              post == r.reg.tokens[c]
          IN r.res = "Transfer" =>
                /\ allowance(pre, tx.from, caller) >= tx.amount
                /\ balance_of(pre, tx.from) >= tx.amount
                /\ allowance(post, tx.from, caller) = allowance(pre, tx.from, caller) - tx.amount
                /\ IF tx.from = tx.to
                   THEN balance_of(post, tx.from) = balance_of(pre, tx.from)
                   ELSE /\ balance_of(post, tx.from) = balance_of(pre, tx.from) - tx.amount
                        /\ balance_of(post, tx.to) = balance_of(pre, tx.to) + tx.amount
    /\ \A c \in Live, owner \in Addr, spender \in Addr :
          /\ ApprovalOf(c, owner, spender).moved <= ApprovalOf(c, owner, spender).approved
          /\ allowance(tokens[c], owner, spender) =
                ApprovalOf(c, owner, spender).approved - ApprovalOf(c, owner, spender).moved

C7_Witness ==
    /\ last.type = "TransferFrom"
    /\ last.res = "Transfer"
    /\ \E k \in DOMAIN approvals : approvals[k].moved = approvals[k].approved
                                   /\ approvals[k].approved > 0

\* C8: transfer, approve, transfer_from, mint, burn, pause, unpause and
\* transfer_ownership always return an event or a QRC20Error; none panics.
C8_NoPanic ==
    last.type \in {"Transfer", "Approve", "TransferFrom", "Mint", "Burn", "Pause",
                   "Unpause", "TransferOwnership"}
        => last.res \in Events \cup Errors

\* C9: no two live tokens share a symbol or a name; symbol_to_address and
\* name_to_address hold exactly one entry per live token, pointing at a live
\* token with that symbol/name; a deploy of a registered symbol or name fails.
C9_IndexesMatchLiveTokens ==
    /\ \A c1 \in Live, c2 \in Live :
          c1 # c2 => tokens[c1].symbol # tokens[c2].symbol /\ tokens[c1].name # tokens[c2].name
    /\ DOMAIN symbol_to_address = {tokens[c].symbol : c \in Live}
    /\ DOMAIN name_to_address = {tokens[c].name : c \in Live}
    /\ \A s \in DOMAIN symbol_to_address :
          symbol_to_address[s] \in Live /\ tokens[symbol_to_address[s]].symbol = s
    /\ \A n \in DOMAIN name_to_address :
          name_to_address[n] \in Live /\ tokens[name_to_address[n]].name = n
    /\ \A c \in Live : tokens[c].contract_address = c
    /\ \A deployer \in Addr, tx \in DeployTxs(Names, Symbols, {0}, {None}, {None}, {None}) :
          (tx.symbol \in {tokens[c].symbol : c \in Live}
             \/ tx.name \in {tokens[c].name : c \in Live})
          => /\ Outcome(deployer, tx).res \in Errors
             /\ deploy_token(Reg, deployer, tx.name, tx.symbol, tx.decimals,
                             tx.total_supply).res # "Ok"

C9_Witness ==
    /\ last.type = "remove_token"
    /\ Cardinality(ever_deployed) = 2
    /\ Cardinality(Live) = 1

\* C10: a successful deploy credits the whole initial supply to the deployer,
\* makes the deployer the owner and returns an address no deploy has returned
\* before; a failed deploy leaves tokens, both indexes and next_contract_id
\* unchanged.
C10_DeployIsFreshAndAtomic ==
    \A deployer \in Addr, tx \in DeployTxs(Names, Symbols, U256, OptU256, {None}, {None}) :
        LET d == deploy_token_advanced(Reg, deployer, tx.name, tx.symbol, tx.decimals,
                                       tx.total_supply, tx.max_supply, tx.mintable,
                                       tx.burnable)
        IN IF d.res = "Ok"
           THEN /\ d.addr \notin ever_deployed
                /\ d.addr \notin Live
                /\ DOMAIN d.reg.tokens = Live \cup {d.addr}
                /\ d.reg.tokens[d.addr].owner = deployer
                /\ d.reg.tokens[d.addr].total_supply = tx.total_supply
                /\ d.reg.tokens[d.addr].balances = Insert(EmptyMap, deployer, tx.total_supply)
           ELSE d.reg = Reg

C10_Witness ==
    /\ last.type \in {"deploy_token", "Deploy"}
    /\ last.res \in {"Ok", "Deploy"}
    /\ Cardinality(ever_deployed) = 2
    /\ Cardinality(Live) = 1

\* ------------------------------------------------------- properties: the bridge
\* what bridge_from_ethereum and bridge_to_ethereum would return in the current
\* state
FromOutcome(eth_token, user, amount, token_symbol, confirmations) ==
    bridge_from_ethereum(Bridge, Reg, eth_token, user, amount, token_symbol, token_symbol,
                         18, 1, confirmations)

ToOutcome(qora_token, user, amount) == bridge_to_ethereum(Bridge, Reg, qora_token, user, amount)

\* C11: for every bridged pair, after any sequence of bridge_from_ethereum and
\* bridge_to_ethereum calls, successful or failed, with any amounts and with
\* fee changes through set_config in between, locked_eth_tokens of the external
\* token is at least minted_qora_tokens of the wrapped token.
C11_LockedCoversMinted ==
    \A e \in DOMAIN eth_to_qora_mapping :
        get_or(locked_eth_tokens, e, 0) >=
            get_or(minted_qora_tokens, eth_to_qora_mapping[e], 0)

C11_Witness ==
    /\ last.type = "bridge_to_ethereum"
    /\ last.res = "Ok"
    /\ \E id \in DOMAIN bridge_transactions : bridge_transactions[id].fee_paid > 0
    /\ \E e \in DOMAIN eth_to_qora_mapping :
          /\ get_or(minted_qora_tokens, eth_to_qora_mapping[e], 0) > 0
          /\ get_or(locked_eth_tokens, e, 0) >
                get_or(minted_qora_tokens, eth_to_qora_mapping[e], 0)

\* C12: a successful bridge_from_ethereum(eth_token, user, amount,
\* confirmations), with fee = floor(amount * bridge_fee_bp / 10000), raises the
\* user's wrapped balance and minted_qora_tokens by amount - fee, raises
\* locked_eth_tokens[eth_token] by amount, and adds exactly one record, with
\* that amount and fee_paid = fee, Completed when confirmations >=
\* min_confirmations and Confirmed otherwise (1000 units at 50 bp: fee 5, 995
\* minted).
C12_BridgeFromEthereumAccounting ==
    /\ calculate_bridge_fee(bridge_new, 1000) = 5
    /\ saturating_sub(1000, calculate_bridge_fee(bridge_new, 1000)) = 995
    /\ \A eth_token \in EthTokens, user \in Addr, amount \in U256,
          token_symbol \in TokenSymbols, confirmations \in {0, 11, 12} :
          LET o == FromOutcome(eth_token, user, amount, token_symbol, confirmations)
              fee == (amount * bridge_fee_bp) \div 10000
              q == o.addr
              before == IF q \in DOMAIN tokens THEN balance_of(tokens[q], user) ELSE 0
              added == DOMAIN o.bridge.bridge_transactions \ DOMAIN bridge_transactions
          IN o.res = "Ok" =>
                /\ balance_of(o.reg.tokens[q], user) = before + (amount - fee)
                /\ get_or(o.bridge.minted_qora_tokens, q, 0) =
                      get_or(minted_qora_tokens, q, 0) + (amount - fee)
                /\ get_or(o.bridge.locked_eth_tokens, eth_token, 0) =
                      get_or(locked_eth_tokens, eth_token, 0) + amount
                /\ Cardinality(added) = 1
                /\ \A id \in DOMAIN bridge_transactions :
                      o.bridge.bridge_transactions[id] = bridge_transactions[id]
                /\ \A id \in added :
                      LET bridge_tx == o.bridge.bridge_transactions[id]
                      IN /\ bridge_tx.amount = amount
                         /\ bridge_tx.fee_paid = fee
                         /\ bridge_tx.status = IF confirmations >= min_confirmations
                                               THEN "Completed" ELSE "Confirmed"

C12_Witness ==
    /\ last.type = "bridge_from_ethereum"
    /\ last.res = "Ok"
    /\ \E id \in DOMAIN bridge_transactions :
          /\ bridge_transactions[id].fee_paid > 0
          /\ bridge_transactions[id].status = "Confirmed"
    /\ \E id \in DOMAIN bridge_transactions : bridge_transactions[id].status = "Completed"

\* C13: eth_to_qora_mapping and qora_to_eth_mapping are inverse one-to-one
\* maps; the wrapped token of an external token is fixed by the first
\* successful bridging of that external token and never changes; later
\* bridgings of the same external token mint on that wrapped token and deploy
\* no new one.
C13_PairingIsOneToOneAndFixed ==
    [][/\ \A e \in DOMAIN eth_to_qora_mapping' :
             /\ eth_to_qora_mapping'[e] \in DOMAIN qora_to_eth_mapping'
             /\ qora_to_eth_mapping'[eth_to_qora_mapping'[e]] = e
       /\ \A q \in DOMAIN qora_to_eth_mapping' :
             /\ qora_to_eth_mapping'[q] \in DOMAIN eth_to_qora_mapping'
             /\ eth_to_qora_mapping'[qora_to_eth_mapping'[q]] = q
       /\ \A e \in DOMAIN eth_to_qora_mapping :
             /\ e \in DOMAIN eth_to_qora_mapping'
             /\ eth_to_qora_mapping'[e] = eth_to_qora_mapping[e]
       /\ eth_to_qora_mapping' # eth_to_qora_mapping =>
             last'.type = "bridge_from_ethereum" /\ last'.res = "Ok"
       /\ \A e \in DOMAIN eth_to_qora_mapping : \A user \in Addr, amount \in U256,
             token_symbol \in TokenSymbols, confirmations \in {0, 12} :
             LET o == FromOutcome(e, user, amount, token_symbol, confirmations)
             IN /\ o.res \notin {"SymbolExists", "NameExists"}
                /\ o.reg.next_contract_id = next_contract_id
                /\ DOMAIN o.reg.tokens = DOMAIN tokens
                /\ o.bridge.eth_to_qora_mapping = eth_to_qora_mapping
                /\ o.bridge.qora_to_eth_mapping = qora_to_eth_mapping
                /\ o.res = "Ok" =>
                      /\ o.addr = eth_to_qora_mapping[e]
                      /\ o.reg.tokens[o.addr].total_supply > tokens[o.addr].total_supply
      ]_vars

C13_Witness ==
    /\ last.type = "bridge_from_ethereum"
    /\ last.res = "Ok"
    /\ Cardinality(DOMAIN eth_to_qora_mapping) = 1
    /\ Cardinality(DOMAIN tokens) = 1
    /\ Cardinality(DOMAIN bridge_transactions) = 2
    /\ \A id \in DOMAIN bridge_transactions :
          bridge_transactions[id].direction = "EthereumToQoraNet"

\* C14: in every state reachable through bridge operations and registry token
\* operations (mints by the wrapped token's owner included), a
\* bridge_to_ethereum that returns an error leaves the user's wrapped balance,
\* the wrapped token's total supply, the locked and minted counters and the
\* bridge records as they were.
C14_FailedBridgeToEthereumChangesNothing ==
    \A qora_token \in ContractIds, user \in Addr, amount \in U256 :
        LET o == ToOutcome(qora_token, user, amount)
        IN o.res \in Errors =>
              /\ DOMAIN o.reg.tokens = DOMAIN tokens
              /\ qora_token \in DOMAIN tokens =>
                    /\ balance_of(o.reg.tokens[qora_token], user) =
                          balance_of(tokens[qora_token], user)
                    /\ o.reg.tokens[qora_token].total_supply = tokens[qora_token].total_supply
              /\ o.bridge.locked_eth_tokens = locked_eth_tokens
              /\ o.bridge.minted_qora_tokens = minted_qora_tokens
              /\ o.bridge.bridge_transactions = bridge_transactions

\* the statuses of the stored bridge records
Statuses(b) == [id \in DOMAIN b.bridge_transactions |-> b.bridge_transactions[id].status]

\* C15: add_operator, remove_operator and emergency_pause take effect only when
\* the caller is a registered operator or the bridge treasury; any other caller
\* gets OnlyOwner and the operator list and all record statuses stay as they
\* are, in every configuration, the default one (zero treasury, no operator)
\* included.
C15_AdministrationIsGated ==
    \A caller \in Addr, operator \in Addr :
        (~is_operator(Bridge, caller) /\ caller # bridge_treasury) =>
            \A r \in {add_operator(Bridge, caller, operator),
                      remove_operator(Bridge, caller, operator),
                      emergency_pause(Bridge, caller)} :
                /\ r.res = "OnlyOwner"
                /\ r.bridge.bridge_operators = bridge_operators
                /\ Statuses(r.bridge) = Statuses(Bridge)

\* C16: a successful bridge_to_ethereum adds a record with status Pending;
\* update_transaction_status changes a record's status, external hash or
\* confirmations only when the caller is a registered operator: called by
\* anyone else (the treasury included) or for an unknown record id it returns
\* an error and changes no record.
C16_StatusUpdatesAreOperatorOnly ==
    /\ \A qora_token \in ContractIds, user \in Addr, amount \in U256 :
          LET o == ToOutcome(qora_token, user, amount)
              added == DOMAIN o.bridge.bridge_transactions \ DOMAIN bridge_transactions
          IN o.res = "Ok" =>
                /\ Cardinality(added) = 1
                /\ \A id \in added : o.bridge.bridge_transactions[id].status = "Pending"
                /\ \A id \in DOMAIN bridge_transactions :
                      o.bridge.bridge_transactions[id] = bridge_transactions[id]
    /\ \A caller \in Addr \cup {ZeroAddress}, tx_id \in 1..(MaxOperatorsSteps + 1),
          status \in {"Pending", "Confirmed", "Completed", "Failed", "Cancelled"},
          eth_tx_hash \in {None, Some(2)}, confirmations \in {None, Some(12)} :
          LET r == update_transaction_status(Bridge, caller, tx_id, status, eth_tx_hash,
                                             confirmations)
          IN IF is_operator(Bridge, caller) /\ tx_id \in DOMAIN bridge_transactions
             THEN /\ r.res = "Ok"
                  /\ r.bridge.bridge_transactions[tx_id].status = status
                  /\ \A id \in DOMAIN bridge_transactions \ {tx_id} :
                        r.bridge.bridge_transactions[id] = bridge_transactions[id]
             ELSE /\ r.res \in Errors
                  /\ r.bridge.bridge_transactions = bridge_transactions

C16_Witness ==
    /\ last.type = "update_transaction_status"
    /\ last.res = "OnlyOwner"
    /\ bridge_treasury \in Addr
    /\ ~is_operator(Bridge, bridge_treasury)
    /\ bridge_operators # <<>>
    /\ \E id \in DOMAIN bridge_transactions :
          /\ bridge_transactions[id].direction = "QoraNetToEthereum"
          /\ bridge_transactions[id].status = "Completed"
          /\ bridge_transactions[id].eth_tx_hash = Some(2)

\* ------------------------------------------------ properties: the pool, the node
\* the hashes a signer's list holds
Listed(signer) == {by_signer[signer][i] : i \in DOMAIN by_signer[signer]}

\* C17: after any sequence of add_transaction and remove_transaction calls,
\* every hash in the per-signer index is a key of the pending map, every
\* pending transaction's hash is listed under its own signer, and no signer key
\* maps to an empty list.
C17_IndexMatchesPending ==
    /\ \A signer \in DOMAIN by_signer : Listed(signer) \subseteq DOMAIN pending
    /\ \A h \in DOMAIN pending :
          /\ pending[h].signer \in DOMAIN by_signer
          /\ h \in Listed(pending[h].signer)
          /\ hash(pending[h]) = h
    /\ \A signer \in DOMAIN by_signer : by_signer[signer] # <<>>

C17_Witness ==
    /\ last.type = "remove_transaction"
    /\ last.res = "Some"
    /\ Cardinality(DOMAIN pending) = 1
    /\ Cardinality(DOMAIN by_signer) = 1
    /\ steps = 3

\* C18: pool admission is all-or-nothing: if validation of a submitted
\* transaction fails (bad signature, fee outside the bounds, or a semantic
\* violation such as a zero transfer amount) add_transaction returns that error
\* and neither the pending map nor the per-signer index changes; if validation
\* succeeds the transaction is in both afterwards.
C18_AdmissionIsAllOrNothing ==
    \A transaction \in PoolTxs :
        LET r == add_transaction(Pool, transaction)
            h == hash(transaction)
            signed == transaction.signature = transaction.signer
            fee_in_bounds ==
                /\ transaction.fee_qor <= 10000000
                /\ transaction.data.type = "Transfer" => transaction.fee_qor >= 100000
                /\ transaction.data.type = "ClaimRewards" => transaction.fee_qor >= 150000
            meaningful ==
                /\ transaction.data.type = "Transfer" => transaction.data.amount > 0
                /\ transaction.data.type = "ClaimRewards" =>
                      transaction.data.lp_rewards + transaction.data.app_rewards > 0
        IN IF signed /\ fee_in_bounds /\ meaningful
           THEN /\ r.res = "Ok"
                /\ h \in DOMAIN r.pool.pending
                /\ r.pool.pending[h] = transaction
                /\ transaction.signer \in DOMAIN r.pool.by_signer
                /\ \E i \in DOMAIN r.pool.by_signer[transaction.signer] :
                      r.pool.by_signer[transaction.signer][i] = h
           ELSE /\ r.res = "InvalidTransaction"
                /\ r.pool = Pool

C18_Witness ==
    /\ last.type = "add_transaction"
    /\ last.res = "InvalidTransaction"
    /\ Cardinality(DOMAIN pending) = 2
    /\ Cardinality(DOMAIN by_signer) = 2

\* C19: the per-signer index is a set: after any sequence of add_transaction
\* and remove_transaction calls, submitting the same signed transaction more
\* than once included, each signer's list holds each of its pending hashes
\* exactly once, so the lengths of all signer lists add up to pending_count.
C19_IndexIsASet ==
    /\ \A signer \in DOMAIN by_signer :
          \A i \in DOMAIN by_signer[signer], j \in DOMAIN by_signer[signer] :
              by_signer[signer][i] = by_signer[signer][j] => i = j
    /\ SumOver([signer \in DOMAIN by_signer |-> Len(by_signer[signer])], DOMAIN by_signer)
          = pending_count(Pool)

\* C20: over any run of the node (any interleaving of submissions, a
\* re-submission of an already included transaction among them, and block
\* production cycles) each transaction is included in exactly one stored block:
\* no transaction hash ever appears in two stored blocks.
C20_IncludedInExactlyOneBlock ==
    \A i \in DOMAIN blocks, j \in DOMAIN blocks :
        \A k \in DOMAIN blocks[i].transactions, l \in DOMAIN blocks[j].transactions :
            hash(blocks[i].transactions[k]) = hash(blocks[j].transactions[l])
                => i = j /\ k = l

\* ------------------------------------------------------ properties: blocks
\* C21: Block::validate(expected_height, expected_previous) succeeds if and
\* only if the header height is expected_height, the header previous_hash is
\* expected_previous, the header timestamp is at most now + 300 seconds, the
\* Merkle root recomputed from the transactions is the header root, the sum of
\* the transactions' fees is the header total_fees, and every transaction's
\* signature verifies; a timestamp far in the past is accepted, and validating
\* a block against its height + 1 fails with the height-mismatch error.
C21_ValidateSucceedsIffSixChecksHold ==
    \A expected_height \in Heights, expected_previous \in PrevHashes :
        LET r == Block_validate(block, expected_height, expected_previous, now,
                                overflow_checks)
            off_by_one == Block_validate(block, block.header.height + 1, expected_previous,
                                         now, overflow_checks)
        IN /\ r.res = "Ok" <=>
                /\ block.header.height = expected_height
                /\ block.header.previous_hash = expected_previous
                /\ block.header.timestamp <= now + 300
                /\ calculate_transactions_root(block.transactions)
                      = block.header.transactions_root
                /\ SumFees(block.transactions) = block.header.total_fees
                /\ \A i \in DOMAIN block.transactions :
                      block.transactions[i].signature = block.transactions[i].signer
           /\ off_by_one = ConsensusError("Invalid block height")

\* C22: whichever of the six checks of Block::validate fails (height, previous
\* hash, timestamp, Merkle root, total fees, a transaction signature), the
\* error it returns is a ConsensusError.
C22_ValidateFailsWithConsensusError ==
    \A expected_height \in Heights, expected_previous \in PrevHashes :
        LET r == Block_validate(block, expected_height, expected_previous, now,
                                overflow_checks)
        IN r.res \notin {"Ok", "panic"} => r.res = "ConsensusError"

\* C23: validating the same block again against the same expected height and
\* previous hash gives the same success or failure as before, whatever happened
\* in between, the wall clock advancing by any amount included.
C23_ValidateIsIdempotent ==
    validated.some =>
        Block_validate(validated.val.block, validated.val.expected_height,
                       validated.val.expected_previous, now, overflow_checks).res
            = validated.val.res.res

\* one level of the tree by position: node i combines hashes 2i-1 and 2i, the
\* last node of an odd level combines its hash with itself
Level(hs) ==
    [i \in 1..((Len(hs) + 1) \div 2) |->
        Hash_new(<<hs[2 * i - 1], hs[IF 2 * i <= Len(hs) THEN 2 * i ELSE 2 * i - 1]>>)]

RECURSIVE Reduced(_)
Reduced(hs) == IF Len(hs) = 1 THEN hs[1] ELSE Reduced(Level(hs))

\* C24: the transactions Merkle root is a function of the ordered list of
\* transaction hashes: the empty list gives the zero hash, a list of one
\* transaction gives that transaction's hash unchanged, and for longer lists
\* each level hashes adjacent pairs, an unpaired last node with a copy of
\* itself, until a single node remains.
C24_MerkleRoot ==
    LET txs == block.transactions
        hs == [i \in DOMAIN txs |-> hash(txs[i])]
        root == calculate_transactions_root(txs)
    IN /\ Len(txs) = 0 => root = Hash_zero
       /\ Len(txs) = 1 => root = hs[1]
       /\ Len(txs) = 2 => root = Hash_new(<<hs[1], hs[2]>>)
       /\ Len(txs) = 3 => root = Hash_new(<<Hash_new(<<hs[1], hs[2]>>),
                                            Hash_new(<<hs[3], hs[3]>>)>>)
       /\ Len(txs) >= 1 => root = Reduced(hs)
       /\ last.type = "Block::new" /\ last.res = "Ok" => block.header.transactions_root = root

C24_Witness ==
    /\ last.type = "Block::new"
    /\ last.res = "Ok"
    /\ Len(block.transactions) = 3
    /\ block.transactions[1] # block.transactions[3]
    /\ block.header.transactions_root # Hash_zero

\* ------------------------------------------------------ properties: the chain
\* C25: after bootstrap and any number of production cycles in which the
\* storage writes succeed, every stored block at height h >= 1 has as
\* previous_hash the hash of the stored block at height h - 1, a header Merkle
\* root and total_fees that match its transaction list, and the storage
\* layer's latest (hash, height) designates the block of greatest height.
C25_StoredChainIsLinked ==
    (pc # "down" /\ ~write_failed) =>
        /\ \A bh \in DOMAIN db.blocks :
              LET b == db.blocks[bh]
                  h == b.header.height
              IN /\ h \in DOMAIN db.heights
                 /\ db.heights[h] = bh
                 /\ bh = Block_hash(b)
                 /\ h >= 1 =>
                       /\ h - 1 \in DOMAIN db.heights
                       /\ db.heights[h - 1] \in DOMAIN db.blocks
                       /\ b.header.previous_hash = Block_hash(db.blocks[db.heights[h - 1]])
                 /\ b.header.transactions_root = calculate_transactions_root(b.transactions)
                 /\ b.header.total_fees = SumFees(b.transactions)
                 /\ h <= get_latest_block_info(cache)[2]
        /\ get_latest_block_info(cache)[1].some
        /\ get_latest_block_info(cache)[1].val \in DOMAIN db.blocks
        /\ db.blocks[get_latest_block_info(cache)[1].val].header.height
              = get_latest_block_info(cache)[2]

C25_Witness ==
    /\ pc # "down"
    /\ ~write_failed
    /\ DOMAIN db.heights = {0, 1, 2}
    /\ db.blocks[db.heights[1]].transactions # <<>>
    /\ get_latest_block_info(cache)[2] = 2

\* C26: at bootstrap the node stores a genesis block (height 0, previous hash
\* zero, no transactions, zero liquidity, zero app count, zero total fees,
\* Merkle root zero) if and only if storage holds no block yet, and before the
\* first production cycle; bootstrapping on a store that already holds a block
\* writes nothing, so an existing genesis block is never replaced.
C26_GenesisOnlyOnEmptyStore ==
    /\ pc = "down" =>
          LET g == genesis(1, now)
              r == initialize_genesis(db, load_latest_block_info(db), 1, now,
                                      store_block_writes(g))
          IN /\ g.header.height = 0
             /\ g.header.previous_hash = Hash_zero
             /\ g.transactions = <<>>
             /\ g.header.total_liquidity = 0
             /\ g.header.active_apps = 0
             /\ g.header.total_fees = 0
             /\ g.header.transactions_root = Hash_zero
             /\ DOMAIN db.blocks = {} =>
                   /\ r.db.blocks = Insert(EmptyMap, Block_hash(g), g)
                   /\ r.db.heights = Insert(EmptyMap, 0, Block_hash(g))
             /\ DOMAIN db.blocks # {} => r.db = db
    /\ pc # "down" => 0 \in DOMAIN db.heights

\* ------------------------------------------------------ properties: balances
\* C27: Balance.add/subtract and TokenBalance.add_tokens/subtract_tokens never
\* wrap: an addition that would exceed the 64-bit maximum and a subtraction
\* that would go below zero return an error and leave the stored amount
\* unchanged; otherwise the amount changes by exactly the operand.
\* get_all_balances never lists an entry whose amount is zero.
C27_BalancesNeverWrap ==
    /\ balance.amount \in U64
    /\ \A t \in DOMAIN token_balance.balances : token_balance.balances[t] \in U64
    /\ \A other \in Amounts :
          LET a == Balance_add(balance, other)
              s == Balance_subtract(balance, other)
          IN /\ IF balance.amount + other > U64Max
                THEN a.res # "Ok" /\ a.balance.amount = balance.amount
                ELSE a.res = "Ok" /\ a.balance.amount = balance.amount + other
             /\ IF balance.amount - other < 0
                THEN s.res # "Ok" /\ s.balance.amount = balance.amount
                ELSE s.res = "Ok" /\ s.balance.amount = balance.amount - other
    /\ \A t \in TokenAddrs, amount \in Amounts :
          LET held == get_token_balance(token_balance, t)
              a == add_tokens(token_balance, t, amount)
              s == subtract_tokens(token_balance, t, amount)
          IN /\ IF held + amount > U64Max
                THEN a.res # "Ok" /\ a.token_balance = token_balance
                ELSE /\ a.res = "Ok"
                     /\ get_token_balance(a.token_balance, t) = held + amount
             /\ IF held - amount < 0
                THEN s.res # "Ok" /\ s.token_balance = token_balance
                ELSE /\ s.res = "Ok"
                     /\ get_token_balance(s.token_balance, t) = held - amount
             /\ \A u \in TokenAddrs \ {t} :
                   /\ get_token_balance(a.token_balance, u) = get_token_balance(token_balance, u)
                   /\ get_token_balance(s.token_balance, u) = get_token_balance(token_balance, u)
    /\ \A e \in get_all_balances(token_balance) : e[2] > 0
    /\ \A t \in TokenAddrs :
          get_token_balance(token_balance, t) > 0
             => <<t, get_token_balance(token_balance, t)>> \in get_all_balances(token_balance)

C27_Witness ==
    /\ last.type = "add_tokens"
    /\ last.res = "InvalidTransaction"
    /\ \E t \in DOMAIN token_balance.balances : token_balance.balances[t] = 0
    /\ \E t \in DOMAIN token_balance.balances : token_balance.balances[t] = U64Max

\* ------------------------------------------------------ properties: the oracle
\* C28: at every price the oracle reaches, for every transaction class the
\* fee of calculate_fee does not decrease from Low to Medium to High to
\* Urgent, and the USD fee it converts lies within MIN_FEE_USD and
\* MAX_FEE_USD.
C28_FeeMonotoneAndClamped ==
    \A tx_type \in TransactionTypes :
        /\ calculate_fee(Oracle, tx_type, "Urgent") >= calculate_fee(Oracle, tx_type, "High")
        /\ calculate_fee(Oracle, tx_type, "High") >= calculate_fee(Oracle, tx_type, "Medium")
        /\ calculate_fee(Oracle, tx_type, "Medium") >= calculate_fee(Oracle, tx_type, "Low")
        /\ \A priority \in FeePriorities :
              /\ ~f64_lt(final_fee_usd(tx_type, priority), MIN_FEE_USD)
              /\ ~f64_lt(MAX_FEE_USD, final_fee_usd(tx_type, priority))

\* a fee was calculated at a refreshed price, of a class and priority whose
\* USD fee is cut to the maximum
C28_Witness ==
    /\ last.type = "calculate_fee"
    /\ qor_price_usd # DefaultPrice
    /\ last.res = usd_to_qor(MAX_FEE_USD, qor_price_usd)
    /\ last.res = calculate_fee(Oracle, "SmartContractComplex", "Urgent")
    /\ last.res > calculate_fee(Oracle, "SmartContractComplex", "Low")

\* amounts of USD as exact fractions num / den of two numbers in base 2^14
Ratio(num, den) == [num |-> num, den |-> den]

RatioLt(a, b) == BigCmp(BigMul(a.num, b.den), BigMul(b.num, a.den)) < 0

\* the USD value of fee_qor smallest units at the price of the oracle:
\* fee_qor / 10^9 * price, the price being m * 2^e
ExactUsd(fee_qor) ==
    LET e == qor_price_usd.e
    IN Ratio(BigShl(BigMul(BigFrom(fee_qor), qor_price_usd.m), IF e > 0 THEN e ELSE 0),
             BigShl(BigFrom(1000000000), IF e < 0 THEN 0 - e ELSE 0))

\* $0.0001 times the class multiplier
ExactBaseFee(tx_type) ==
    Ratio(BigFrom(ClassRatio[tx_type][1]), BigFrom(10000 * ClassRatio[tx_type][2]))

\* $0.01
ExactMaxFee == Ratio(BigFrom(1), BigFrom(100))

\* C29: validate_fee succeeds on an amount and a class exactly when the USD
\* value of the amount at the current price is neither below the base fee of
\* the class nor above MAX_FEE_USD; the amount usd_to_qor gives for $0.00005
\* is rejected for a Transfer and the one it gives for $0.0002 is accepted.
C29_ValidateFeeFailsExactlyOutsideRange ==
    /\ \A fee_qor \in FeeAmounts, tx_type \in TransactionTypes :
          validate_fee(Oracle, fee_qor, tx_type) = "Ok"
          <=> /\ ~RatioLt(ExactUsd(fee_qor), ExactBaseFee(tx_type))
              /\ ~RatioLt(ExactMaxFee, ExactUsd(fee_qor))
    /\ validate_fee(Oracle, usd_to_qor(Literal(5, 100000), qor_price_usd), "Transfer") # "Ok"
    /\ validate_fee(Oracle, usd_to_qor(Literal(2, 10000), qor_price_usd), "Transfer") = "Ok"

\* the same away from the two limits: for amounts whose USD value is neither
\* the base fee of the class nor MAX_FEE_USD
C29_AwayFromLimits ==
    /\ \A fee_qor \in FeeAmounts, tx_type \in TransactionTypes :
          \/ ~RatioLt(ExactUsd(fee_qor), ExactBaseFee(tx_type))
             /\ ~RatioLt(ExactBaseFee(tx_type), ExactUsd(fee_qor))
          \/ ~RatioLt(ExactUsd(fee_qor), ExactMaxFee) /\ ~RatioLt(ExactMaxFee, ExactUsd(fee_qor))
          \/ validate_fee(Oracle, fee_qor, tx_type) = "Ok"
             <=> /\ ~RatioLt(ExactUsd(fee_qor), ExactBaseFee(tx_type))
                 /\ ~RatioLt(ExactMaxFee, ExactUsd(fee_qor))
    /\ validate_fee(Oracle, usd_to_qor(Literal(5, 100000), qor_price_usd), "Transfer") # "Ok"
    /\ validate_fee(Oracle, usd_to_qor(Literal(2, 10000), qor_price_usd), "Transfer") = "Ok"

\* the limits of pool_validate_fee are those of validate_fee on a new oracle
PoolFeeLimitsAgree ==
    \A tx_type \in DOMAIN PoolMinFee :
        \A fee_qor \in PoolFees \cup {PoolMinFee[tx_type] - 1, PoolMinFee[tx_type],
                                      PoolMaxFee[tx_type], PoolMaxFee[tx_type] + 1} :
            pool_validate_fee(fee_qor, tx_type) = validate_fee(FeeOracle_new(0), fee_qor, tx_type)

\* the sources that answered, in the order of price_sources, each with the
\* price it gave and its weight
Answered(responses) ==
    LET answer(i) == [price |-> responses[i].val, weight |-> SourceWeights[i]]
        RECURSIVE from(_)
        from(i) == IF i > Len(responses) THEN <<>>
                   ELSE IF responses[i].some THEN <<answer(i)>> \o from(i + 1)
                   ELSE from(i + 1)
    IN from(1)

\* the f64 sum, from the left, of the weighted prices of answers
RECURSIVE WeightedPrices(_)
WeightedPrices(answers) ==
    IF answers = <<>> THEN f64_zero
    ELSE f64_add(WeightedPrices(SubSeq(answers, 1, Len(answers) - 1)),
                 f64_mul(answers[Len(answers)].price, answers[Len(answers)].weight))

\* the f64 sum, from the left, of the weights of answers
RECURSIVE Weights(_)
Weights(answers) ==
    IF answers = <<>> THEN f64_zero
    ELSE f64_add(Weights(SubSeq(answers, 1, Len(answers) - 1)), answers[Len(answers)].weight)

WeightedAverage(answers) == f64_div(WeightedPrices(answers), Weights(answers))

\* C30: update_price always returns success; called before the refresh
\* interval has elapsed since last_update, or answered by no source, it
\* leaves the price and last_update as they are; otherwise the price becomes
\* the weighted average of the sources that answered and last_update the time
\* of the refresh.
C30_UpdatePriceFrame ==
    \A responses \in Responses, took \in {0, 1} :
        LET r == update_price(Oracle, responses, now, now + took)
        IN /\ r.res = "Ok"
           /\ IF now - last_update < UpdateInterval \/ Answered(responses) = <<>>
              THEN r.oracle = Oracle
              ELSE /\ r.oracle.qor_price_usd = WeightedAverage(Answered(responses))
                   /\ r.oracle.last_update = now + took

\* a refresh in which the first source gave no answer has set the price to
\* the average of the other two
C30_Witness ==
    /\ last.type = "update_price"
    /\ last_update > 0
    /\ qor_price_usd = WeightedAverage(Answered(<<None, Some(Literal(1, 2)), Some(Literal(3, 2))>>))
    /\ qor_price_usd # DefaultPrice

\* a refresh asked for before the interval had elapsed, and one that no source
\* answered after it had, are possible
C30_WitnessNoChange ==
    /\ last.type = "update_price"
    /\ last_update = 0
    /\ now >= UpdateInterval

\* -------------------------------------------- properties: bridge configuration
\* C39: a set_config call that returns an error, whatever optional arguments
\* it was given together, leaves min_confirmations, bridge_fee_bp and the
\* treasury address as they were.
C39_FailedSetConfigChangesNothing ==
    \A caller \in Addr, min_conf \in {None, Some(1)}, fee_bp \in {None, Some(50), Some(5000)},
       treasury \in {None, Some(1)} :
        LET r == set_config(Bridge, caller, min_conf, fee_bp, treasury)
        IN r.res # "Ok" =>
              /\ r.bridge.min_confirmations = min_confirmations
              /\ r.bridge.bridge_fee_bp = bridge_fee_bp
              /\ r.bridge.bridge_treasury = bridge_treasury

\* C40: for every bridged pair, the total_supply of the wrapped token in the
\* registry is at most locked_eth_tokens of its external token, after any
\* sequence of bridge operations and token operations by any callers.
C40_WrappedSupplyCoveredByLocked ==
    \A e \in DOMAIN eth_to_qora_mapping :
        eth_to_qora_mapping[e] \in DOMAIN tokens =>
            tokens[eth_to_qora_mapping[e]].total_supply <= get_or(locked_eth_tokens, e, 0)

\* ---------------------------------------------- properties: fees, both ways
\* C35: at every price the oracle reaches, for every transaction class and
\* priority, the fee amount calculate_fee returns is accepted by validate_fee
\* for that class at the same price.
C35_CalculatedFeeIsAccepted ==
    \A tx_type \in TransactionTypes, priority \in FeePriorities :
        validate_fee(Oracle, calculate_fee(Oracle, tx_type, priority), tx_type) = "Ok"

\* at the default price the calculated fee is accepted for every class but
\* ClaimRewards and SmartContract{Simple}
C35_AtDefaultPrice ==
    qor_price_usd = DefaultPrice =>
        \A tx_type \in TransactionTypes \ {"ClaimRewards", "SmartContractSimple"},
           priority \in FeePriorities :
            validate_fee(Oracle, calculate_fee(Oracle, tx_type, priority), tx_type) = "Ok"

\* at some price the oracle reaches, the calculated fee of a Transfer at Low
\* priority is refused: the division by the price leaves a fraction of a
\* smallest unit, which usd_to_qor drops
C35_TruncatedFeeIsRefused ==
    /\ last.type = "calculate_fee"
    /\ last.res = calculate_fee(Oracle, "Transfer", "Low")
    /\ validate_fee(Oracle, last.res, "Transfer") # "Ok"
    /\ RatioLt(ExactUsd(last.res), ExactBaseFee("Transfer"))

\* ---- account storage (storage/mod.rs): the accounts column family and the
\* account cache of StorageCache. accounts maps an address to the stored
\* bytes of its AccountState, account_cache maps an address to the cached
\* AccountState. cache_size_limit is 10000 in the source (mod.rs 72) and is
\* scaled down here so that evictions happen.
cache_size_limit == 2

MaxAccountSteps == 4

AccountAddrs == 1..(cache_size_limit + 1)

AccountBalances == {0, 5}

AccountState_new(address, time) ==
    [address |-> address, balance |-> Balance_zero, nonce |-> 0,
     created_at |-> time, last_updated |-> time]

AccountState_update_balance(account, new_balance, time) ==
    [account EXCEPT !.balance = new_balance, !.last_updated = time]

AccountState_increment_nonce(account, time) ==
    [account EXCEPT !.nonce = @ + 1, !.last_updated = time]

\* bincode::serialize / deserialize of the derived AccountState: the fields in
\* declaration order
serialize_account(account) ==
    <<account.address, account.balance.amount, account.nonce, account.created_at,
      account.last_updated>>

deserialize_account(data) ==
    [address |-> data[1], balance |-> [amount |-> data[2]], nonce |-> data[3],
     created_at |-> data[4], last_updated |-> data[5]]

AccountStorage == [accounts |-> accounts, account_cache |-> account_cache]

\* the entries min_by_key may return: HashMap iteration order decides among
\* entries of equal last_updated
Oldest(c) ==
    {a \in DOMAIN c : \A b \in DOMAIN c : c[a].last_updated <= c[b].last_updated}

\* every cache cache_account may leave
cache_account(c, account) ==
    IF Cardinality(DOMAIN c) >= cache_size_limit /\ DOMAIN c # {}
    THEN {Insert(Remove(c, oldest_addr), account.address, account) : oldest_addr \in Oldest(c)}
    ELSE {Insert(c, account.address, account)}

\* a store_account that updates the cache before the database write
store_account_caching_first(S, account, put_ok) ==
    {[storage |-> [accounts |-> IF put_ok
                                THEN Insert(S.accounts, account.address, serialize_account(account))
                                ELSE S.accounts,
                   account_cache |-> c],
      res |-> IF put_ok THEN "Ok" ELSE "StorageError"] : c \in cache_account(S.account_cache, account)}

\* every outcome of store_account; put_ok says whether db.put_cf succeeds
store_account(S, account, put_ok) ==
    IF ~put_ok
    THEN {[storage |-> S, res |-> "StorageError"]}
    ELSE {[storage |-> [accounts |-> Insert(S.accounts, account.address, serialize_account(account)),
                        account_cache |-> c],
           res |-> "Ok"] : c \in cache_account(S.account_cache, account)}

\* get_ok says whether db.get_cf succeeds
get_account(S, address, get_ok) ==
    IF address \in DOMAIN S.account_cache
    THEN [res |-> "Ok", val |-> Some(S.account_cache[address])]
    ELSE IF ~get_ok
    THEN [res |-> "StorageError", val |-> None]
    ELSE IF address \in DOMAIN S.accounts
    THEN [res |-> "Ok", val |-> Some(deserialize_account(S.accounts[address]))]
    ELSE [res |-> "Ok", val |-> None]

get_or_create_account(S, address, time, get_ok, put_ok) ==
    LET g == get_account(S, address, get_ok)
        new_account == AccountState_new(address, time)
    IN IF g.res # "Ok"
       THEN {[storage |-> S, res |-> g.res, val |-> new_account]}
       ELSE IF g.val.some
       THEN {[storage |-> S, res |-> "Ok", val |-> g.val.val]}
       ELSE {[storage |-> r.storage, res |-> r.res, val |-> new_account] :
                r \in store_account(S, new_account, put_ok)}

update_account_balance(S, address, new_balance, time, get_ok, put_ok, put2_ok) ==
    UNION {IF g.res # "Ok"
           THEN {[storage |-> g.storage, res |-> g.res]}
           ELSE store_account(g.storage, AccountState_update_balance(g.val, new_balance, time), put2_ok) :
              g \in get_or_create_account(S, address, time, get_ok, put_ok)}

increment_account_nonce(S, address, time, get_ok, put_ok, put2_ok) ==
    UNION {IF g.res # "Ok"
           THEN {[storage |-> g.storage, res |-> g.res]}
           ELSE store_account(g.storage, AccountState_increment_nonce(g.val, time), put2_ok) :
              g \in get_or_create_account(S, address, time, get_ok, put_ok)}

\* flush clears the account cache (the latest-block info it reloads is not
\* part of the account state)
flush(S) == [S EXCEPT !.account_cache = EmptyMap]

AccountTimes == {2, 3}

\* the AccountState values a caller passes to store_account
CallerAccounts ==
    {[address |-> a, balance |-> [amount |-> b], nonce |-> 0, created_at |-> 1,
      last_updated |-> t] : a \in AccountAddrs, b \in AccountBalances, t \in {1, now}}

AccountStep(type, res) ==
    /\ steps < MaxAccountSteps
    /\ steps' = steps + 1
    /\ last' = [type |-> type, res |-> res]
    /\ UNCHANGED <<registry_vars, history_vars, bridge_vars, node_vars, block, validated,
                   overflow_checks, chain_vars, balance_vars, oracle_vars, cycle_vars,
                   lock_vars>>

InitAccounts ==
    /\ InitReg(registry_new)
    /\ InitHistory
    /\ InitBridgeState(bridge_new)
    /\ InitLedgerState
    /\ InitNodeState
    /\ steps = 0
    /\ last = [type |-> "new", res |-> "Ok"]

StoreAccount ==
    \E account \in CallerAccounts, put_ok \in BOOLEAN :
        \E r \in store_account(AccountStorage, account, put_ok) :
            /\ AccountStep("store_account", r.res)
            /\ accounts' = r.storage.accounts
            /\ account_cache' = r.storage.account_cache
            /\ UNCHANGED now

GetOrCreateAccount ==
    \E address \in AccountAddrs, get_ok \in BOOLEAN, put_ok \in BOOLEAN :
        \E r \in get_or_create_account(AccountStorage, address, now, get_ok, put_ok) :
            /\ AccountStep("get_or_create_account", r.res)
            /\ accounts' = r.storage.accounts
            /\ account_cache' = r.storage.account_cache
            /\ UNCHANGED now

UpdateAccountBalance ==
    \E address \in AccountAddrs, b \in AccountBalances, get_ok \in BOOLEAN, put_ok \in BOOLEAN,
       put2_ok \in BOOLEAN :
        \E r \in update_account_balance(AccountStorage, address, [amount |-> b], now, get_ok,
                                        put_ok, put2_ok) :
            /\ AccountStep("update_account_balance", r.res)
            /\ accounts' = r.storage.accounts
            /\ account_cache' = r.storage.account_cache
            /\ UNCHANGED now

IncrementAccountNonce ==
    \E address \in AccountAddrs, get_ok \in BOOLEAN, put_ok \in BOOLEAN, put2_ok \in BOOLEAN :
        \E r \in increment_account_nonce(AccountStorage, address, now, get_ok, put_ok, put2_ok) :
            /\ AccountStep("increment_account_nonce", r.res)
            /\ accounts' = r.storage.accounts
            /\ account_cache' = r.storage.account_cache
            /\ UNCHANGED now

Flush ==
    /\ AccountStep("flush", "Ok")
    /\ accounts' = flush(AccountStorage).accounts
    /\ account_cache' = flush(AccountStorage).account_cache
    /\ UNCHANGED now

AccountTick ==
    \E time \in AccountTimes :
        /\ time > now
        /\ AccountStep("tick", "Ok")
        /\ now' = time
        /\ UNCHANGED account_vars

NextAccounts ==
    \/ StoreAccount
    \/ GetOrCreateAccount
    \/ UpdateAccountBalance
    \/ IncrementAccountNonce
    \/ Flush
    \/ AccountTick

SpecAccounts == InitAccounts /\ [][NextAccounts]_vars

\* C33: after any sequence of store_account, get_or_create_account,
\* update_account_balance, increment_account_nonce and flush, the account
\* cache holds at most cache_size_limit entries, every cached entry equals the
\* durable copy of that account, and get_account returns the durable state of
\* every account ever stored (and nothing for an account never stored)
C33_CacheBoundedAndCoherent ==
    /\ Cardinality(DOMAIN account_cache) <= cache_size_limit
    /\ \A a \in DOMAIN account_cache :
          /\ a \in DOMAIN accounts
          /\ account_cache[a] = deserialize_account(accounts[a])
    /\ \A a \in AccountAddrs :
          get_account(AccountStorage, a, TRUE) =
              [res |-> "Ok",
               val |-> IF a \in DOMAIN accounts
                       THEN Some(deserialize_account(accounts[a]))
                       ELSE None]

\* an insertion at capacity has evicted an entry: more accounts are stored
\* than the cache can hold, the cache is full, and the evicted account is
\* still served from the database
C33_Witness ==
    /\ last.type = "store_account"
    /\ last.res = "Ok"
    /\ Cardinality(DOMAIN accounts) > cache_size_limit
    /\ Cardinality(DOMAIN account_cache) = cache_size_limit
    /\ \E a \in DOMAIN accounts \ DOMAIN account_cache :
          get_account(AccountStorage, a, TRUE).val = Some(deserialize_account(accounts[a]))

\* C34: after store_block was interrupted between two of its key writes and
\* the node has restarted and reloaded the latest-block info, the latest hash
\* and the latest height designate one and the same stored block, so that the
\* next block gets a height one above the block its previous_hash points to
C34_RestartLatestInfoDesignatesOneBlock ==
    (last.type = "initialize_genesis" /\ last.res = "Ok" /\ write_failed) =>
        LET latest_hash == get_latest_block_info(cache)[1]
            latest_height == get_latest_block_info(cache)[2]
        IN /\ latest_hash.some
           /\ latest_hash.val \in DOMAIN db.blocks
           /\ latest_height + 1 = db.blocks[latest_hash.val].header.height + 1

\* the restart after an interrupted store_block of a block above genesis finds
\* the hash of the new block with the height of the one before it
C34_NewHashWithOldHeight ==
    /\ last.type = "initialize_genesis"
    /\ last.res = "Ok"
    /\ get_latest_block_info(cache)[1].some
    /\ get_latest_block_info(cache)[1].val \in DOMAIN db.blocks
    /\ db.blocks[get_latest_block_info(cache)[1].val].header.height =
          get_latest_block_info(cache)[2] + 1

\* ---- one production cycle of try_produce_block (validator.rs 208-275), cut
\* at its suspension points, while other tasks submit transactions.
\* current_height is the height of the consensus state; cycle holds the locals
\* of the running cycle and the results of its steps so far; admitted holds
\* the transactions admitted since the cycle read the pool.
MaxCycleSteps == 7

validator_address == 1

\* consensus_state.update_height(new_height)
update_height(height, new_height) == new_height

\* what select_block_producer may return: a validator or an error
SelectionOutcomes ==
    {[res |-> "Ok", val |-> a] : a \in Addr} \cup {[res |-> "ConsensusError", val |-> 0]}

\* a cycle that goes on to the pool purge whatever store_block returned
next_pc_ignoring_store_error(at, res) ==
    IF at = "idle" THEN (IF res = "selected" THEN "selected" ELSE "idle")
    ELSE IF at = "selected" THEN (IF res = "Ok" THEN "validated" ELSE "idle")
    ELSE IF at = "validated" THEN "stored"
    ELSE IF at = "stored" THEN "purged"
    ELSE "idle"

\* a cycle that goes on whatever producer selection returned
next_pc_ignoring_selection(at, res) ==
    IF at = "idle" THEN "selected"
    ELSE IF at = "selected" THEN (IF res = "Ok" THEN "validated" ELSE "idle")
    ELSE IF at = "validated" THEN (IF res = "Ok" THEN "stored" ELSE "idle")
    ELSE IF at = "stored" THEN "purged"
    ELSE "idle"

\* where try_produce_block stands after the step at position at has given
\* res: the early return of lines 226-228 and each `?` end the cycle
next_pc(at, res) ==
    IF at = "idle" THEN (IF res = "selected" THEN "selected" ELSE "idle")
    ELSE IF at = "selected" THEN (IF res = "Ok" THEN "validated" ELSE "idle")
    ELSE IF at = "validated" THEN (IF res = "Ok" THEN "stored" ELSE "idle")
    ELSE IF at = "stored" THEN "purged"
    ELSE "idle"

\* lines 225-228: the outcome of producer selection for this node
producer_check(selected, address) ==
    IF selected.res # "Ok" THEN selected.res
    ELSE IF selected.val # address THEN "None"
    ELSE "selected"

\* one more step of the bounded runs
CycleCount ==
    /\ steps < MaxCycleSteps
    /\ steps' = steps + 1

CycleFrame(type, res) ==
    /\ last' = [type |-> type, res |-> res]
    /\ UNCHANGED <<registry_vars, history_vars, bridge_vars, blocks, validated,
                   overflow_checks, now, write_failed, balance_vars, oracle_vars, account_vars,
                   lock_vars>>

\* a started node: genesis is stored, the pool is empty
InitCycle ==
    /\ InitReg(registry_new)
    /\ InitHistory
    /\ InitBridgeState(bridge_new)
    /\ InitOracleState
    /\ InitAccountState
    /\ InitCycleState
    /\ InitLockState
    /\ balance = Balance_zero
    /\ token_balance = TokenBalance_new
    /\ block = genesis(validator_address, 0)
    /\ now = 302
    /\ validated = None
    /\ overflow_checks = FALSE
    /\ db = store_block(db_new, StorageCache_new, genesis(validator_address, 0), 4).db
    /\ cache = load_latest_block_info(db)
    /\ write_failed = FALSE
    /\ pending = pool_new.pending
    /\ by_signer = pool_new.by_signer
    /\ blocks = <<>>
    /\ pc = "idle"
    /\ transactions = <<>>
    /\ steps = 0
    /\ last = [type |-> "new", res |-> "Ok"]

\* add_transaction of transaction from another task
SubmitDo(transaction) ==
    LET r == add_transaction(Pool, transaction)
    IN /\ CycleFrame("add_transaction", r.res)
       /\ pending' = r.pool.pending
       /\ by_signer' = r.pool.by_signer
       /\ admitted' = IF r.res = "Ok" /\ pc \in {"validated", "stored"}
                      THEN admitted \cup {transaction} ELSE admitted
       /\ UNCHANGED <<pc, transactions, block, db, cache, current_height, cycle>>

\* lines 215-228: latest block info, producer selection returning selected,
\* the early return
SelectProducerDo(selected) ==
    LET res == producer_check(selected, validator_address)
    IN /\ pc = "idle"
       /\ CycleFrame("try_produce_block", res)
       /\ cycle' = [cycle_idle EXCEPT
                       !.selected_validator = Some(selected),
                       !.previous_hash = unwrap_or(get_latest_block_info(cache)[1], Hash_zero),
                       !.new_height = get_latest_block_info(cache)[2] + 1]
       /\ pc' = next_pc("idle", res)
       /\ admitted' = {}
       /\ UNCHANGED <<pending, by_signer, transactions, block, db, cache, current_height>>

\* lines 231-253: the pool read giving txs, Block::new and block.validate,
\* which reads the clock as clock
AssembleBlockDo(txs, clock) ==
    LET b == Block_new(cycle.previous_hash, cycle.new_height, validator_address, txs, 0, 0,
                       now, overflow_checks)
        v == Block_validate(b.block, cycle.new_height, cycle.previous_hash, clock,
                            overflow_checks)
        res == IF b.res # "Ok" THEN b.res ELSE v.res
    IN /\ pc = "selected"
       /\ CycleFrame("validate", res)
       /\ cycle' = [cycle EXCEPT !.validation = res]
       /\ pc' = next_pc("selected", res)
       /\ block' = b.block
       /\ transactions' = txs
       /\ UNCHANGED <<pending, by_signer, db, cache, current_height, admitted>>

\* lines 255-258: store_block under the storage write lock, of which the
\* first completed writes succeed
WriteBlockDo(completed) ==
    LET r == store_block(db, cache, block, completed)
    IN /\ pc = "validated"
       /\ CycleFrame("store_block", r.res)
       /\ db' = r.db
       /\ cache' = r.cache
       /\ cycle' = [cycle EXCEPT !.stored = r.res]
       /\ pc' = next_pc("validated", r.res)
       /\ UNCHANGED <<pending, by_signer, transactions, block, current_height, admitted>>

\* lines 261-266: the purge under the pool write lock
PurgeDo ==
    /\ pc = "stored"
    /\ CycleFrame("purge", "Ok")
    /\ pending' = remove_all(Pool, block.transactions).pending
    /\ by_signer' = remove_all(Pool, block.transactions).by_signer
    /\ cycle' = [cycle EXCEPT !.purged = TRUE]
    /\ pc' = next_pc("stored", "Ok")
    /\ UNCHANGED <<transactions, block, db, cache, current_height, admitted>>

\* lines 269-274: the consensus height, then Ok(Some(block))
UpdateHeightDo ==
    /\ pc = "purged"
    /\ CycleFrame("try_produce_block", "Some")
    /\ current_height' = update_height(current_height, cycle.new_height)
    /\ pc' = next_pc("purged", "Ok")
    /\ UNCHANGED <<pending, by_signer, transactions, block, db, cache, cycle, admitted>>

\* the clock readings of block.validate: the one of Block::new or one that
\* lies before it
ValidateClocks == {now, now - 301}

CycleSubmit ==
    \E transaction \in NodeTxs :
        /\ CycleCount
        /\ SubmitDo(transaction)

SelectProducer ==
    \E selected \in SelectionOutcomes :
        /\ CycleCount
        /\ SelectProducerDo(selected)

AssembleBlock ==
    \E txs \in get_transactions_for_block(Pool, MaxTransactionsPerBlock), clock \in ValidateClocks :
        /\ CycleCount
        /\ AssembleBlockDo(txs, clock)

CycleWriteBlock ==
    \E completed \in 0..store_block_writes(block) :
        /\ CycleCount
        /\ WriteBlockDo(completed)

CyclePurge ==
    /\ CycleCount
    /\ PurgeDo

UpdateHeight ==
    /\ CycleCount
    /\ UpdateHeightDo

NextCycle ==
    \/ CycleSubmit
    \/ SelectProducer
    \/ AssembleBlock
    \/ CycleWriteBlock
    \/ CyclePurge
    \/ UpdateHeight

SpecCycle == InitCycle /\ [][NextCycle]_vars

\* ---- the production loop without end: a bounded number of transactions is
\* ever submitted, every write of store_block succeeds, a tick on which this
\* node is selected keeps coming, and every step of a running cycle is taken.
\* The chain is cut at MaxLiveHeight; a submission needs room for a block of
\* its own below that height, after the block of the running cycle.
MaxLiveSubmits == 2

MaxLiveHeight == 3

LiveSubmit ==
    \E transaction \in NodeTxs :
        /\ steps < MaxLiveSubmits
        /\ get_latest_block_info(cache)[2] + (IF pc \in {"selected", "validated"} THEN 1 ELSE 0)
              + Cardinality(DOMAIN add_transaction(Pool, transaction).pool.pending)
              <= MaxLiveHeight
        /\ steps' = steps + 1
        /\ SubmitDo(transaction)

LiveSelect ==
    \E selected \in SelectionOutcomes :
        /\ get_latest_block_info(cache)[2] < MaxLiveHeight
        /\ UNCHANGED steps
        /\ SelectProducerDo(selected)

LiveSelected ==
    /\ get_latest_block_info(cache)[2] < MaxLiveHeight
    /\ UNCHANGED steps
    /\ SelectProducerDo([res |-> "Ok", val |-> validator_address])

LiveAssemble ==
    \E txs \in get_transactions_for_block(Pool, MaxTransactionsPerBlock), clock \in ValidateClocks :
        /\ UNCHANGED steps
        /\ AssembleBlockDo(txs, clock)

LiveAssembled ==
    \E txs \in get_transactions_for_block(Pool, MaxTransactionsPerBlock) :
        /\ UNCHANGED steps
        /\ AssembleBlockDo(txs, now)

LiveWrite ==
    /\ UNCHANGED steps
    /\ WriteBlockDo(store_block_writes(block))

LivePurge ==
    /\ UNCHANGED steps
    /\ PurgeDo

LiveUpdateHeight ==
    /\ UNCHANGED steps
    /\ UpdateHeightDo

NextLive ==
    \/ LiveSubmit
    \/ LiveSelect
    \/ LiveAssemble
    \/ LiveWrite
    \/ LivePurge
    \/ LiveUpdateHeight

\* the interval of the production task keeps ticking and its steps are
\* scheduled (weak fairness of each step); this node is selected again and
\* again (the claim's premise) and the clock does not step back by more than
\* the tolerance in every cycle for ever (strong fairness of a validation
\* that succeeds)
SpecLive ==
    /\ InitCycle
    /\ [][NextLive]_vars
    /\ WF_vars(LiveSelected)
    /\ SF_vars(LiveAssembled)
    /\ WF_vars(LiveWrite)
    /\ WF_vars(LivePurge)
    /\ WF_vars(LiveUpdateHeight)

\* the transactions of the blocks in storage
Stored ==
    UNION {{db.blocks[h].transactions[k] : k \in DOMAIN db.blocks[h].transactions} :
              h \in DOMAIN db.blocks}

\* C36: with no transaction admitted from some point on, a limit of at least
\* one transaction per block, storage writes that succeed and this node
\* selected again and again, every pending transaction is eventually in a
\* stored block and the pool is eventually empty for good
C36_PoolDrains ==
    /\ \A tx \in NodeTxs : (hash(tx) \in DOMAIN pending) ~> (tx \in Stored)
    /\ <>[](pending = EmptyMap)

\* all submissions are made, their transactions are in stored blocks and the
\* pool is empty
C36_Witness ==
    /\ steps = MaxLiveSubmits
    /\ pending = EmptyMap
    /\ Cardinality(Stored) = MaxLiveSubmits
    /\ pc = "idle"

\* C31: within one cycle the block is written to storage only after its
\* validation succeeded, transactions leave the pool only after the block was
\* stored, and the consensus height changes only after the removal; when
\* validation or the storage write fails, that step ends the cycle and the
\* cycle neither removes a transaction from the pool nor changes the height
C31_CycleOrder ==
    [][/\ db' # db => cycle.validation = "Ok"
       /\ (\E h \in DOMAIN pending : h \notin DOMAIN pending') => cycle.stored = "Ok"
       /\ current_height' # current_height => cycle.purged
       /\ (cycle' # cycle /\ (cycle'.validation \notin {"none", "Ok"}
                              \/ cycle'.stored \notin {"none", "Ok"})) =>
             /\ pc' = "idle"
             /\ pending' = pending
             /\ by_signer' = by_signer
             /\ current_height' = current_height
       /\ (cycle.validation \notin {"none", "Ok"} \/ cycle.stored \notin {"none", "Ok"}) =>
             /\ DOMAIN pending \subseteq DOMAIN pending'
             /\ current_height' = current_height]_vars

\* a cycle ran through: the block with a transaction is stored, the pool is
\* purged of it and the consensus height is the height of the block
C31_Witness ==
    /\ last = [type |-> "try_produce_block", res |-> "Some"]
    /\ cycle.validation = "Ok"
    /\ cycle.stored = "Ok"
    /\ cycle.purged
    /\ current_height = block.header.height
    /\ block.transactions # <<>>
    /\ Block_hash(block) \in DOMAIN db.blocks

\* block.validate failed with transactions read from the pool
C31_ValidationFailed ==
    /\ cycle.validation = "ConsensusError"
    /\ pc = "idle"
    /\ transactions # <<>>
    /\ pending # EmptyMap

\* store_block failed with transactions read from the pool
C31_StoreFailed ==
    /\ cycle.stored = "StorageError"
    /\ pc = "idle"
    /\ transactions # <<>>
    /\ pending # EmptyMap

\* C32: the node writes a block to storage only if producer selection over
\* the current previous-block hash returned its own address; otherwise the
\* cycle ends at once with storage, pool and consensus height unchanged and
\* returns no block
C32_StoresOnlyWhenSelected ==
    [][/\ db' # db =>
             /\ cycle.selected_validator = Some([res |-> "Ok", val |-> validator_address])
             /\ cycle.previous_hash = unwrap_or(get_latest_block_info(cache)[1], Hash_zero)
       /\ (pc = "idle" /\ cycle' # cycle
           /\ cycle'.selected_validator # Some([res |-> "Ok", val |-> validator_address])) =>
             /\ pc' = "idle"
             /\ last'.res \in {"None", "ConsensusError"}
             /\ db' = db
             /\ cache' = cache
             /\ pending' = pending
             /\ by_signer' = by_signer
             /\ current_height' = current_height]_vars

\* another validator was selected while transactions were pending
C32_Witness ==
    /\ last = [type |-> "try_produce_block", res |-> "None"]
    /\ cycle.selected_validator.some
    /\ cycle.selected_validator.val.res = "Ok"
    /\ cycle.selected_validator.val.val # validator_address
    /\ pending # EmptyMap
    /\ pc = "idle"

\* C37: the purge removes exactly the transactions included in the block the
\* cycle stored, and a transaction admitted after the cycle read the pool and
\* before the purge is still pending when the cycle ends
C37_PurgeRemovesExactlyTheBlock ==
    /\ cycle.purged =>
          \A tx \in admitted : hash(tx) \in DOMAIN pending
    /\ \A h \in DOMAIN pending :
          LET after == remove_all(Pool, block.transactions).pending
          IN (h \notin DOMAIN after) <=> (\E i \in DOMAIN block.transactions :
                                              hash(block.transactions[i]) = h)

\* the purge has removed a transaction that was admitted again between the
\* pool read and the purge
C37_ReadmittedIsPurged ==
    /\ pc = "purged"
    /\ \E tx \in admitted :
          /\ hash(tx) \notin DOMAIN pending
          /\ \E i \in DOMAIN block.transactions : block.transactions[i] = tx

\* a transaction that is not in the block and was admitted between the pool
\* read and the purge is still pending after the purge
C37_OthersStayPending ==
    pc = "purged" =>
        \A tx \in admitted :
            (\A i \in DOMAIN block.transactions : block.transactions[i] # tx) =>
                hash(tx) \in DOMAIN pending

\* ---- the locks: each task as the sequence of lock operations of its code.
\* A step is [op, lock, mode, next]: acquire requests the lock (the .await of
\* read() or write()), release drops the guard, compute takes no lock. The
\* labels are line numbers of validator.rs. outcome is the result of the
\* operation at the label where the code branches on it.
\* locks[l] is the state of a tokio RwLock: its guards and its FIFO queue of
\* requests.
LockStepOf(op, lock, mode, next) == [op |-> op, lock |-> lock, mode |-> mode, next |-> next]

\* try_produce_block without the drop(consensus_state) of line 240: the read
\* guard lives to the end of the function
try_produce_block_keeping_read_guard(at, outcome) ==
    IF at = "idle" THEN LockStepOf("acquire", "consensus", "read", "p217")
    ELSE IF at = "p217" THEN LockStepOf("acquire", "storage", "read", "p219")
    ELSE IF at = "p219" THEN LockStepOf("release", "storage", "read", "p225")
    ELSE IF at = "p225"
    THEN (IF outcome = "Ok" THEN LockStepOf("compute", "none", "none", "p232")
          ELSE LockStepOf("release", "consensus", "read", "idle"))
    ELSE IF at = "p232" THEN LockStepOf("acquire", "pool", "read", "p234")
    ELSE IF at = "p234" THEN LockStepOf("release", "pool", "read", "p240")
    ELSE IF at = "p240" THEN LockStepOf("compute", "none", "none", "p253")
    ELSE IF at = "p253"
    THEN (IF outcome = "Ok" THEN LockStepOf("compute", "none", "none", "p256")
          ELSE LockStepOf("release", "consensus", "read", "idle"))
    ELSE IF at = "p256" THEN LockStepOf("acquire", "storage", "write", "p257")
    ELSE IF at = "p257"
    THEN LockStepOf("release", "storage", "write", IF outcome = "Ok" THEN "p262" ELSE "p275")
    ELSE IF at = "p262" THEN LockStepOf("acquire", "pool", "write", "p266")
    ELSE IF at = "p266" THEN LockStepOf("release", "pool", "write", "p270")
    ELSE IF at = "p270" THEN LockStepOf("acquire", "consensus", "write", "p272")
    ELSE IF at = "p272" THEN LockStepOf("release", "consensus", "write", "p275")
    ELSE LockStepOf("release", "consensus", "read", "idle")

\* try_produce_block (validator.rs 208-275): the consensus read guard from
\* line 215 to the drop of line 240 or to the early return, the storage and
\* pool read guards in their blocks, then the three write guards one after
\* another, each dropped at the end of its block, also when `?` returns
try_produce_block_locks(at, outcome) ==
    IF at = "idle" THEN LockStepOf("acquire", "consensus", "read", "p217")
    ELSE IF at = "p217" THEN LockStepOf("acquire", "storage", "read", "p219")
    ELSE IF at = "p219" THEN LockStepOf("release", "storage", "read", "p225")
    ELSE IF at = "p225"
    THEN (IF outcome = "Ok" THEN LockStepOf("compute", "none", "none", "p232")
          ELSE LockStepOf("release", "consensus", "read", "idle"))
    ELSE IF at = "p232" THEN LockStepOf("acquire", "pool", "read", "p234")
    ELSE IF at = "p234" THEN LockStepOf("release", "pool", "read", "p240")
    ELSE IF at = "p240" THEN LockStepOf("release", "consensus", "read", "p253")
    ELSE IF at = "p253"
    THEN LockStepOf("compute", "none", "none", IF outcome = "Ok" THEN "p256" ELSE "idle")
    ELSE IF at = "p256" THEN LockStepOf("acquire", "storage", "write", "p257")
    ELSE IF at = "p257"
    THEN LockStepOf("release", "storage", "write", IF outcome = "Ok" THEN "p262" ELSE "idle")
    ELSE IF at = "p262" THEN LockStepOf("acquire", "pool", "write", "p266")
    ELSE IF at = "p266" THEN LockStepOf("release", "pool", "write", "p270")
    ELSE IF at = "p270" THEN LockStepOf("acquire", "consensus", "write", "p272")
    ELSE LockStepOf("release", "consensus", "write", "idle")

\* initialize_genesis (188-205), then the status loop of start with
\* print_status (278-299); outcome at g190 says whether the chain is empty, at
\* g198 whether store_block succeeded (its error ends start)
main_locks(at, outcome) ==
    IF at = "g189" THEN LockStepOf("acquire", "storage", "read", "g190")
    ELSE IF at = "g190"
    THEN LockStepOf("release", "storage", "read", IF outcome = "Ok" THEN "g197" ELSE "s280")
    ELSE IF at = "g197" THEN LockStepOf("acquire", "storage", "write", "g198")
    ELSE IF at = "g198"
    THEN LockStepOf("release", "storage", "write", IF outcome = "Ok" THEN "s280" ELSE "exited")
    ELSE IF at = "s280" THEN LockStepOf("acquire", "storage", "read", "s281")
    ELSE IF at = "s281" THEN LockStepOf("release", "storage", "read", "s285")
    ELSE IF at = "s285" THEN LockStepOf("acquire", "pool", "read", "s286")
    ELSE IF at = "s286" THEN LockStepOf("release", "pool", "read", "s289")
    ELSE IF at = "s289" THEN LockStepOf("acquire", "oracle", "read", "s290")
    ELSE IF at = "s290" THEN LockStepOf("release", "oracle", "read", "s292")
    ELSE IF at = "s292" THEN LockStepOf("acquire", "consensus", "read", "s293")
    ELSE LockStepOf("release", "consensus", "read", "s280")

\* GlobalFeeOracle::update_price (fee_oracle.rs 251-254) in the refresh loop:
\* the oracle write guard is held across the fetches
update_price_locks(at, outcome) ==
    IF at = "idle" THEN LockStepOf("acquire", "oracle", "write", "f253")
    ELSE IF at = "f253" THEN LockStepOf("compute", "none", "none", "f254")
    ELSE LockStepOf("release", "oracle", "write", "idle")

\* a task outside validator.rs that submits a transaction: the pool write
\* guard around add_transaction, the only other writer the pool can have
add_transaction_locks(at, outcome) ==
    IF at = "idle" THEN LockStepOf("acquire", "pool", "write", "a_add")
    ELSE LockStepOf("release", "pool", "write", "idle")

task_step(task, at, outcome) ==
    IF task = "production" THEN try_produce_block_locks(at, outcome)
    ELSE IF task = "main" THEN main_locks(at, outcome)
    ELSE IF task = "fee" THEN update_price_locks(at, outcome)
    ELSE add_transaction_locks(at, outcome)

\* the labels at which a task is between two cycles
IdleLabels == {"idle", "s280", "exited", "unspawned"}

Holds(t, l, m) == <<t, m>> \in locks[l].holders

QueuePos(t, l) ==
    IF \E i \in DOMAIN locks[l].queue : locks[l].queue[i][1] = t
    THEN CHOOSE i \in DOMAIN locks[l].queue : locks[l].queue[i][1] = t
    ELSE 0

Waiting(t, l, m) == QueuePos(t, l) # 0 /\ locks[l].queue[QueuePos(t, l)][2] = m

IsWaiting(t) == \E l \in Locks : QueuePos(t, l) # 0

\* the head of the queue of l can be granted: a read when no write guard
\* exists, a write when no guard exists
Grantable(l) ==
    /\ locks[l].queue # <<>>
    /\ IF Head(locks[l].queue)[2] = "read"
       THEN \A h \in locks[l].holders : h[2] = "read"
       ELSE locks[l].holders = {}

LockStep ==
    UNCHANGED <<registry_vars, last, history_vars, steps, bridge_vars, node_vars, block_vars,
                chain_vars, balance_vars, oracle_vars, account_vars, cycle_vars>>

InitLocks ==
    /\ InitReg(registry_new)
    /\ InitHistory
    /\ InitBridgeState(bridge_new)
    /\ InitNodeState
    /\ InitLedgerState
    /\ steps = 0
    /\ last = [type |-> "new", res |-> "Ok"]

\* the tasks are spawned once initialize_genesis has returned Ok
Spawn ==
    /\ task_pc["main"] = "s280"
    /\ \E t \in Tasks : task_pc[t] = "unspawned"
    /\ task_pc' = [t \in Tasks |-> IF task_pc[t] = "unspawned" THEN "idle" ELSE task_pc[t]]
    /\ UNCHANGED locks
    /\ LockStep

\* a task reaches read().await or write().await: its request joins the queue
Acquire ==
    \E t \in Tasks, outcome \in {"Ok", "Err"} :
        LET s == task_step(t, task_pc[t], outcome)
        IN /\ task_pc[t] \notin {"unspawned", "exited"}
           /\ ~IsWaiting(t)
           /\ s.op = "acquire"
           /\ locks' = [locks EXCEPT ![s.lock].queue = Append(@, <<t, s.mode>>)]
           /\ UNCHANGED task_pc
           /\ LockStep

\* the lock hands its guard to the request at the head of its queue
Grant ==
    \E l \in Locks :
        /\ Grantable(l)
        /\ LET t == Head(locks[l].queue)[1]
               s == task_step(t, task_pc[t], "Ok")
           IN /\ locks' = [locks EXCEPT ![l].queue = Tail(@),
                                        ![l].holders = @ \cup {Head(locks[l].queue)}]
              /\ task_pc' = [task_pc EXCEPT ![t] = s.next]
        /\ LockStep

\* a guard is dropped
Release ==
    \E t \in Tasks, outcome \in {"Ok", "Err"} :
        LET s == task_step(t, task_pc[t], outcome)
        IN /\ task_pc[t] \notin {"unspawned", "exited"}
           /\ ~IsWaiting(t)
           /\ s.op = "release"
           /\ locks' = [locks EXCEPT ![s.lock].holders = @ \ {<<t, s.mode>>}]
           /\ task_pc' = [task_pc EXCEPT ![t] = s.next]
           /\ LockStep

\* a task runs code that takes no lock
Compute ==
    \E t \in Tasks, outcome \in {"Ok", "Err"} :
        LET s == task_step(t, task_pc[t], outcome)
        IN /\ task_pc[t] \notin {"unspawned", "exited"}
           /\ ~IsWaiting(t)
           /\ s.op = "compute"
           /\ task_pc' = [task_pc EXCEPT ![t] = s.next]
           /\ UNCHANGED locks
           /\ LockStep

NextLocks ==
    \/ Spawn
    \/ Acquire
    \/ Grant
    \/ Release
    \/ Compute

SpecLocks == InitLocks /\ [][NextLocks]_vars

\* t cannot go on before u has: t waits for a lock on which u holds a guard
\* that conflicts with a request at or ahead of t's, or u is queued ahead of t
WaitsFor(t, u) ==
    \E l \in Locks :
        /\ QueuePos(t, l) # 0
        /\ \/ /\ QueuePos(u, l) # 0
              /\ QueuePos(u, l) < QueuePos(t, l)
           \/ /\ \E m \in {"read", "write"} : Holds(u, l, m)
              /\ \/ Holds(u, l, "write")
                 \/ \E i \in 1..QueuePos(t, l) : locks[l].queue[i][2] = "write"

\* a deadlock: a set of tasks each of which waits for one of the set
Deadlocked == \E S \in (SUBSET Tasks) \ {{}} : \A t \in S : \E u \in S : WaitsFor(t, u)

\* C38: the tasks cannot deadlock on the four locks: no task requests the
\* write lock of a resource while it holds a read guard of it, no task holds a
\* write guard while it waits for a lock, a task between two cycles holds no
\* guard (whichever way the cycle ended), and no set of tasks wait for each
\* other
C38_NoDeadlock ==
    /\ \A t \in Tasks, l \in Locks : Waiting(t, l, "write") => ~Holds(t, l, "read")
    /\ \A t \in Tasks, l \in Locks : IsWaiting(t) => ~Holds(t, l, "write")
    /\ \A t \in Tasks, l \in Locks, m \in {"read", "write"} :
          task_pc[t] \in IdleLabels /\ ~IsWaiting(t) => ~Holds(t, l, m)
    /\ ~Deadlocked

\* the production task has stored and purged and waits for the consensus
\* write lock while the status task reads the consensus state and the fee
\* task holds the oracle write guard across its fetches
C38_Witness ==
    /\ Waiting("production", "consensus", "write")
    /\ Holds("main", "consensus", "read")
    /\ Holds("fee", "oracle", "write")
    /\ task_pc["fee"] = "f254"

\* the production task holds the consensus read guard and waits for the pool
\* read lock behind the write request of a submitting task
C38_WaitsHoldingReadGuard ==
    /\ Holds("production", "consensus", "read")
    /\ Waiting("production", "pool", "read")
    /\ Waiting("submit", "pool", "write")
    /\ QueuePos("submit", "pool") < QueuePos("production", "pool")
    /\ Holds("main", "pool", "read")

====
